---- MODULE Spec2Model ----
(***************************************************************************)
(* Mutation Events polyfill (mfreed7/mutation-events-polyfill).            *)
(*                                                                         *)
(* The page is a small DOM (a document, its document element and a few     *)
(* elements and a text node).  Script calls addEventListener /             *)
(* removeEventListener (as patched by the polyfill), mutates the tree, and *)
(* at the microtask checkpoint the MutationObserver callbacks              *)
(* (handleMutations) run over the records queued since the last one.       *)
(***************************************************************************)
EXTENDS Integers, Sequences, FiniteSets, TLC

(***************************************************************************)
(* Bounds of the exploration.                                              *)
(***************************************************************************)
\* addEventListener / removeEventListener calls in one behaviour
MaxCalls == 3
\* tree, attribute and character-data mutations in one behaviour
MaxMuts == 2
\* moves of nodes in one behaviour of the lifecycle specification
MaxMoves == 1
MaxLoads == 2

(***************************************************************************)
(* The nodes of the page.                                                  *)
(***************************************************************************)
NoNode == "null"
Document == "document"
Elements == {"html", "parent", "target", "other"}
TextNodes == {"text"}
ShadowRoots == {"shadow", "inner"}
Nodes == {Document} \cup Elements \cup TextNodes \cup ShadowRoots

\* absent attribute / no value
Null == "null"
AttrValues == {"foo", "bar"}
DataValues == {"Hello", "foo"}

\* The inputs of the listener calls.
ListenNodes == {"parent", "target"}
ListenNames == {"DOMNodeRemoved", "DOMSubtreeModified", "click"}
Listeners == {"f"}

VARIABLES
  children,              \* node -> sequence of its child nodes
  host,                  \* shadow root -> its host (NoNode: not attached)
  attr,                  \* element -> value of its attribute "test" (Null: absent)
  data,                  \* text node -> its character data
  listeningNodes,        \* the polyfill's Set listeningNodes
  documentsToObservers,  \* the polyfill's Map: root -> {observer, count}
  observers,             \* every MutationObserver created, by creation order
  listeners,             \* node -> the platform's event listener list
  registered,            \* history: legacy listeners added and not yet removed by the caller
  enables,               \* history: node -> number of effective enable calls on it
  disables,              \* history: node -> number of effective disable calls on it
  lastCall,              \* history: the last listener call
  handled,               \* history: the batch each observer got at the last checkpoint
  dispatched,            \* history: dispatchMutationEvent calls of the last checkpoint
  invoked,               \* history: listener invocations of the last checkpoint
  calls,                 \* number of listener calls so far
  muts,                  \* number of mutations so far
  running,               \* the handleMutations call in progress, and where it is
  window                 \* the globals the script reads and writes when it loads

domVars == <<children, host, attr, data>>
polyVars == <<listeningNodes, documentsToObservers>>
histVars == <<registered, enables, disables>>
logVars == <<handled, dispatched, invoked>>
vars == <<children, host, attr, data, listeningNodes, documentsToObservers,
          observers, listeners, registered, enables, disables, lastCall,
          handled, dispatched, invoked, calls, muts, running, window>>
envVars == <<running, window>>

\* No handleMutations call is in progress.  checkpoint: the microtask
\* checkpoint is still under way (script does not run before it ends).
Idle == [observer |-> 0, mutations |-> <<>>, record |-> 0, step |-> 0,
         subtreeModified |-> <<>>, checkpoint |-> FALSE]

\* The globals after the script has installed the polyfill: the flag, the
\* MutationEvent class it defines, and one layer of its functions around the
\* platform's addEventListener, removeEventListener and createEvent.
Installed == [native |-> FALSE,
              mutationEventsPolyfillInstalled |-> TRUE,
              MutationEvent |-> "polyfill",
              mutationEventsUsePolyfillAlways |-> FALSE,
              addEventListener |-> 1, removeEventListener |-> 1,
              createEvent |-> 1, loads |-> 1]

(***************************************************************************)
(* Sequence helpers.                                                       *)
(***************************************************************************)
Range(s) == {s[i] : i \in 1..Len(s)}

RECURSIVE Without(_, _)
Without(s, x) ==
  IF s = <<>> THEN <<>>
  ELSE IF Head(s) = x THEN Without(Tail(s), x)
  ELSE <<Head(s)>> \o Without(Tail(s), x)

RECURSIVE Reverse(_)
Reverse(s) == IF s = <<>> THEN <<>> ELSE Append(Reverse(Tail(s)), Head(s))

SetMax(S) == IF S = {} THEN 0 ELSE CHOOSE x \in S : \A y \in S : y <= x

(***************************************************************************)
(* The DOM, as the platform implements it.                                 *)
(***************************************************************************)
parentNode(n) ==
  IF \E p \in Nodes : n \in Range(children[p])
  THEN CHOOSE p \in Nodes : n \in Range(children[p])
  ELSE NoNode

\* Node.getRootNode(): the top of the parent chain (it stops at a shadow root).
RECURSIVE getRootNode(_)
getRootNode(n) ==
  IF parentNode(n) = NoNode THEN n ELSE getRootNode(parentNode(n))

\* n and its ancestors, innermost first.
RECURSIVE InclusiveAncestors(_)
InclusiveAncestors(n) ==
  IF parentNode(n) = NoNode THEN <<n>>
  ELSE <<n>> \o InclusiveAncestors(parentNode(n))

\* Node.isConnected: the shadow-including root is a document
RECURSIVE isConnected(_)
isConnected(n) == LET r == getRootNode(n) IN
  \/ r = Document
  \/ r \in ShadowRoots /\ host[r] # NoNode /\ isConnected(host[r])

documentElement == children[Document][1]

(***************************************************************************)
(* The polyfill: observer lifecycle.                                       *)
(***************************************************************************)
mutationEvents == {"DOMCharacterDataModified", "DOMNodeInserted",
                   "DOMNodeInsertedIntoDocument", "DOMNodeRemoved",
                   "DOMNodeRemovedFromDocument", "DOMSubtreeModified"}
polyfillEventNameExtension == "Polyfilled"

\* The loop of getRootElement: while (rootNode instanceof ShadowRoot)
RECURSIVE OutOfShadow(_)
OutOfShadow(rootNode) ==
  IF rootNode \in ShadowRoots /\ host[rootNode] # NoNode
  THEN OutOfShadow(getRootNode(host[rootNode]))
  ELSE rootNode

\* Mutant: a node that is in no document is its own root.
getRootElementOwnRoot(el) ==
  LET rootNode == OutOfShadow(getRootNode(el)) IN
  IF rootNode = Document THEN documentElement ELSE el

getRootElement(el) ==
  LET rootNode == OutOfShadow(getRootNode(el)) IN
  IF rootNode = Document THEN documentElement ELSE rootNode

\* elem.has(target), for the Set and (on its keys) the Map
hasTarget(elem, target) == target \in elem

MapSet(m, k, v) == [x \in DOMAIN m \cup {k} |-> IF x = k THEN v ELSE m[x]]
MapDelete(m, k) == [x \in DOMAIN m \ {k} |-> m[x]]

\* new MutationObserver(handleMutations), then observer.observe(root, observerOptions)
NewObserver(root) ==
  [root |-> root, connected |-> TRUE, records |-> <<>>, transient |-> {}]

\* observer.disconnect(): stops observing and drops the queued records
Disconnect(o) ==
  [o EXCEPT !.connected = FALSE, !.records = <<>>, !.transient = {}]

\* Mutant: enable without its early return, counting every call.
enableCountsEveryCall(target) ==
  /\ listeningNodes' = listeningNodes \cup {target}
  /\ LET rootElement == getRootElement(target) IN
     IF hasTarget(DOMAIN documentsToObservers, rootElement)
     THEN /\ documentsToObservers' =
               [documentsToObservers EXCEPT ![rootElement].count = @ + 1]
          /\ UNCHANGED observers
     ELSE /\ documentsToObservers' =
               MapSet(documentsToObservers, rootElement,
                      [observer |-> Len(observers) + 1, count |-> 1])
          /\ observers' = Append(observers, NewObserver(rootElement))

\* Mutant: enable makes and connects a new observer also when the root has
\* a registration.
enableObservesEveryTime(target) ==
  IF hasTarget(listeningNodes, target)
  THEN UNCHANGED <<listeningNodes, documentsToObservers, observers>>
  ELSE /\ listeningNodes' = listeningNodes \cup {target}
       /\ LET rootElement == getRootElement(target) IN
          /\ documentsToObservers' =
               IF hasTarget(DOMAIN documentsToObservers, rootElement)
               THEN [documentsToObservers EXCEPT ![rootElement].count = @ + 1]
               ELSE MapSet(documentsToObservers, rootElement,
                           [observer |-> Len(observers) + 1, count |-> 1])
          /\ observers' = Append(observers, NewObserver(rootElement))

\* Mutant: a new registration starts with count 0.
enableStartsAtZero(target) ==
  IF hasTarget(listeningNodes, target)
  THEN UNCHANGED <<listeningNodes, documentsToObservers, observers>>
  ELSE /\ listeningNodes' = listeningNodes \cup {target}
       /\ LET rootElement == getRootElement(target) IN
          IF hasTarget(DOMAIN documentsToObservers, rootElement)
          THEN /\ documentsToObservers' =
                    [documentsToObservers EXCEPT ![rootElement].count = @ + 1]
               /\ UNCHANGED observers
          ELSE /\ documentsToObservers' =
                    MapSet(documentsToObservers, rootElement,
                           [observer |-> Len(observers) + 1, count |-> 0])
               /\ observers' = Append(observers, NewObserver(rootElement))

enableMutationEventPolyfill(target) ==
  IF hasTarget(listeningNodes, target)
  THEN UNCHANGED <<listeningNodes, documentsToObservers, observers>>
  ELSE /\ listeningNodes' = listeningNodes \cup {target}
       /\ LET rootElement == getRootElement(target) IN
          IF hasTarget(DOMAIN documentsToObservers, rootElement)
          THEN /\ documentsToObservers' =
                    [documentsToObservers EXCEPT ![rootElement].count = @ + 1]
               /\ UNCHANGED observers
          ELSE /\ documentsToObservers' =
                    MapSet(documentsToObservers, rootElement,
                           [observer |-> Len(observers) + 1, count |-> 1])
               /\ observers' = Append(observers, NewObserver(rootElement))

\* Mutant: disable that decrements but never deletes the registration.
disableKeepsRegistration(target) ==
  IF ~hasTarget(listeningNodes, target)
  THEN UNCHANGED <<listeningNodes, documentsToObservers, observers>>
  ELSE /\ listeningNodes' = listeningNodes \ {target}
       /\ LET rootElement == getRootElement(target) IN
          IF ~hasTarget(DOMAIN documentsToObservers, rootElement)
          THEN UNCHANGED <<documentsToObservers, observers>>
          ELSE /\ documentsToObservers' =
                    [documentsToObservers EXCEPT ![rootElement].count = @ - 1]
               /\ UNCHANGED observers

disableMutationEventPolyfill(target) ==
  IF ~hasTarget(listeningNodes, target)
  THEN UNCHANGED <<listeningNodes, documentsToObservers, observers>>
  ELSE /\ listeningNodes' = listeningNodes \ {target}
       /\ LET rootElement == getRootElement(target) IN
          IF ~hasTarget(DOMAIN documentsToObservers, rootElement)
          THEN UNCHANGED <<documentsToObservers, observers>>
          ELSE IF documentsToObservers[rootElement].count - 1 = 0
          THEN LET observer == documentsToObservers[rootElement].observer IN
               /\ documentsToObservers' = MapDelete(documentsToObservers, rootElement)
               /\ observers' = [observers EXCEPT ![observer] = Disconnect(@)]
          ELSE /\ documentsToObservers' =
                    [documentsToObservers EXCEPT ![rootElement].count = @ - 1]
               /\ UNCHANGED observers

(***************************************************************************)
(* The polyfill: the patched addEventListener / removeEventListener.       *)
(***************************************************************************)
\* A callback the platform stores.  A closure created by getAugmentedListener
\* has an identity of its own (closure > 0); the caller's listener passed
\* through unwrapped is identified by itself (closure = 0).
Unwrapped(listener) == [closure |-> 0, eventName |-> "", listener |-> listener]

\* An identity no stored callback has: every evaluation of the arrow function
\* in getAugmentedListener is a new function object.
ClosuresOn(n) == {listeners[n][i].callback.closure : i \in 1..Len(listeners[n])}
NewClosure == 1 + SetMax(UNION {ClosuresOn(n) : n \in Nodes})

getAugmentedListener(eventName, listener, options) ==
  IF hasTarget(mutationEvents, eventName)
  THEN [fullEventName |-> eventName \o polyfillEventNameExtension,
        augmentedListener |-> [closure |-> NewClosure, eventName |-> eventName,
                               listener |-> listener]]
  ELSE [fullEventName |-> eventName, augmentedListener |-> Unwrapped(listener)]

\* The platform's EventTarget.addEventListener on one listener list: a no-op
\* when the list holds the same (type, callback, capture) already.
originalAddEventListener(list, type, callback, options) ==
  LET entry == [type |-> type, callback |-> callback, capture |-> options.capture] IN
  IF entry \in Range(list) THEN list ELSE Append(list, entry)

\* The platform's EventTarget.removeEventListener: removes the entry with the
\* same (type, callback, capture), if any.
originalRemoveEventListener(list, type, callback, options) ==
  LET entry == [type |-> type, callback |-> callback, capture |-> options.capture] IN
  Without(list, entry)

Registration(this, eventName, listener, options) ==
  [node |-> this, eventName |-> eventName, listener |-> listener,
   capture |-> options.capture]

\* History of the lifecycle calls: an enable (disable) is effective when the
\* node is not (is) enabled at the call.
CountEnable(this) ==
  /\ enables' = IF this \in listeningNodes THEN enables
                ELSE [enables EXCEPT ![this] = @ + 1]
  /\ UNCHANGED disables

CountDisable(this) ==
  /\ disables' = IF this \notin listeningNodes THEN disables
                 ELSE [disables EXCEPT ![this] = @ + 1]
  /\ UNCHANGED enables

\* Mutant: addEventListener enables the polyfill on the node whatever the
\* event name is.
AddEventListenerEnablesAlways(this, eventName, listener, options) ==
  /\ calls < MaxCalls
  /\ calls' = calls + 1
  /\ enableMutationEventPolyfill(this)
  /\ LET aug == getAugmentedListener(eventName, listener, options) IN
     listeners' = [listeners EXCEPT ![this] =
       originalAddEventListener(@, aug.fullEventName,
                                aug.augmentedListener, options)]
  /\ registered' = IF hasTarget(mutationEvents, eventName)
                   THEN registered \cup
                          {Registration(this, eventName, listener, options)}
                   ELSE registered
  /\ CountEnable(this)
  /\ lastCall' = [op |-> "add", this |-> this,
                  legacy |-> hasTarget(mutationEvents, eventName),
                  listening |-> this \in listeningNodes]
  /\ handled' = <<>> /\ dispatched' = <<>> /\ invoked' = <<>>
  /\ UNCHANGED <<domVars, muts, envVars>>

\* Element.prototype.addEventListener = function(eventName, listener, options)
AddEventListener(this, eventName, listener, options) ==
  /\ calls < MaxCalls
  /\ calls' = calls + 1
  /\ IF hasTarget(mutationEvents, eventName)
     THEN /\ enableMutationEventPolyfill(this)
          /\ LET aug == getAugmentedListener(eventName, listener, options) IN
             listeners' = [listeners EXCEPT ![this] =
               originalAddEventListener(@, aug.fullEventName,
                                        aug.augmentedListener, options)]
          /\ registered' = registered \cup
                             {Registration(this, eventName, listener, options)}
          /\ CountEnable(this)
     ELSE /\ listeners' = [listeners EXCEPT ![this] =
               originalAddEventListener(@, eventName, Unwrapped(listener), options)]
          /\ UNCHANGED <<listeningNodes, documentsToObservers, observers,
                         registered, enables, disables>>
  /\ lastCall' = [op |-> "add", this |-> this,
                  legacy |-> hasTarget(mutationEvents, eventName),
                  listening |-> this \in listeningNodes]
  /\ handled' = <<>> /\ dispatched' = <<>> /\ invoked' = <<>>
  /\ UNCHANGED <<domVars, muts, envVars>>

\* Element.prototype.removeEventListener = function(eventName, listener, options)
RemoveEventListener(this, eventName, listener, options) ==
  /\ calls < MaxCalls
  /\ calls' = calls + 1
  /\ IF hasTarget(mutationEvents, eventName)
     THEN /\ disableMutationEventPolyfill(this)
          /\ LET aug == getAugmentedListener(eventName, listener, options) IN
             listeners' = [listeners EXCEPT ![this] =
               originalRemoveEventListener(@, aug.fullEventName,
                                           aug.augmentedListener, options)]
          /\ registered' = registered \
                             {Registration(this, eventName, listener, options)}
          /\ CountDisable(this)
     ELSE /\ listeners' = [listeners EXCEPT ![this] =
               originalRemoveEventListener(@, eventName, Unwrapped(listener), options)]
          /\ UNCHANGED <<listeningNodes, documentsToObservers, observers,
                         registered, enables, disables>>
  /\ lastCall' = [op |-> "remove", this |-> this,
                  legacy |-> hasTarget(mutationEvents, eventName),
                  listening |-> this \in listeningNodes]
  /\ handled' = <<>> /\ dispatched' = <<>> /\ invoked' = <<>>
  /\ UNCHANGED <<domVars, muts, envVars>>

(***************************************************************************)
(* The platform: mutations of the tree and the records they queue.         *)
(***************************************************************************)
\* A MutationRecord.  Three fields are history, which the platform's record
\* does not have and handleMutations never reads: newValue (the value the
\* operation wrote, Null for a removal), targetConnected (the target was
\* connected when the operation ran) and addedConnected (the added nodes that
\* were connected before the operation).
Record(type, target, addedNodes, removedNodes, oldValue, newValue) ==
  [type |-> type, target |-> target, addedNodes |-> addedNodes,
   removedNodes |-> removedNodes, attributeName |-> "test",
   oldValue |-> oldValue, newValue |-> newValue,
   targetConnected |-> isConnected(target),
   addedConnected |-> {n \in Range(addedNodes) : isConnected(n)}]

\* Observer o (observing its root with subtree: true, and the nodes removed
\* from that subtree since its last callback) is told of a mutation at target.
Interested(o, target) ==
  /\ o.connected
  /\ \E a \in Range(InclusiveAncestors(target)) : a = o.root \/ a \in o.transient

QueueRecord(obs, rec) ==
  [i \in DOMAIN obs |->
     IF Interested(obs[i], rec.target)
     THEN [obs[i] EXCEPT !.records = Append(@, rec)] ELSE obs[i]]

\* The transient registered observers of the nodes removed from oldParent.
AddTransient(obs, oldParent, removed) ==
  [i \in DOMAIN obs |->
     IF Interested(obs[i], oldParent)
     THEN [obs[i] EXCEPT !.transient = @ \cup Range(removed)] ELSE obs[i]]

\* Mutant: the tree walker shows elements only (NodeFilter.SHOW_ELEMENT).
RECURSIVE walkElementsOnly(_)
RECURSIVE walkElementsOf(_)
walkElementsOnly(n) == <<n>> \o walkElementsOf(children[n])
walkElementsOf(ns) ==
  IF ns = <<>> THEN <<>>
  ELSE (IF Head(ns) \in Elements THEN walkElementsOnly(Head(ns)) ELSE <<>>)
       \o walkElementsOf(Tail(ns))

\* The nodes walk(n, action) visits: n, then its descendants in document order.
RECURSIVE walk(_)
RECURSIVE walkAll(_)
walk(n) == <<n>> \o walkAll(children[n])
walkAll(ns) == IF ns = <<>> THEN <<>> ELSE walk(Head(ns)) \o walkAll(Tail(ns))

MovableNodes == {"target", "other", "text"}
ParentNodes == {"parent", "target", "other"}
AttrNodes == {"target"}

\* Node.textContent
RECURSIVE textContent(_)
RECURSIVE textOfAll(_)
textContent(n) == IF n \in TextNodes THEN data[n] ELSE textOfAll(children[n])
textOfAll(ns) ==
  IF ns = <<>> THEN "" ELSE textContent(Head(ns)) \o textOfAll(Tail(ns))

(***************************************************************************)
(* The polyfill: handleMutations and dispatchMutationEvent.                *)
(***************************************************************************)
\* Mutant: the base options say bubbles: false.
baseEventObjNoBubbles ==
  [attrChange |-> 0, bubbles |-> FALSE, cancelable |-> FALSE, newValue |-> "",
   prevValue |-> "", relatedNode |-> Null]

baseEventObj ==
  [attrChange |-> 0, bubbles |-> TRUE, cancelable |-> FALSE, newValue |-> "",
   prevValue |-> "", relatedNode |-> Null]
NoOptions == <<>>

\* Object.assign(a, b)
Assign(a, b) ==
  [k \in DOMAIN a \cup DOMAIN b |-> IF k \in DOMAIN b THEN b[k] ELSE a[k]]

\* dispatchMutationEvent(type, target, options, fakeTarget): the event it
\* builds and the node it dispatches it on (site).  event.target reads as
\* fakeTarget when one is given, else as the node of the dispatch.
dispatchMutationEvent(type, target, options, fakeTarget) ==
  LET newEvent == Assign(baseEventObj, options) IN
  [type |-> type \o polyfillEventNameExtension,
   bubbles |-> newEvent.bubbles,
   cancelable |-> newEvent.cancelable,
   attrChange |-> newEvent.attrChange,
   newValue |-> newEvent.newValue,
   prevValue |-> newEvent.prevValue,
   relatedNode |-> newEvent.relatedNode,
   target |-> IF fakeTarget # NoNode THEN fakeTarget ELSE target,
   site |-> target]

RECURSIVE DispatchEach(_, _, _)
\* walk(n, (node) => dispatchMutationEvent(type, node, options)) over nodes
DispatchEach(type, nodes, options) ==
  IF nodes = <<>> THEN <<>>
  ELSE <<dispatchMutationEvent(type, Head(nodes), options, NoNode)>>
       \o DispatchEach(type, Tail(nodes), options)

\* Mutant: the dispatch on the old parent comes before the one on the node.
RemovedNodeEventsParentFirst(target, n) ==
  <<dispatchMutationEvent("DOMNodeRemoved", target, NoOptions, n),
    dispatchMutationEvent("DOMNodeRemoved", n, NoOptions, NoNode)>>
  \o DispatchEach("DOMNodeRemovedFromDocument", walk(n), [bubbles |-> FALSE])
  \o <<dispatchMutationEvent("DOMNodeRemovedFromDocument", target,
                             [bubbles |-> FALSE], n)>>

\* The body of mutation.removedNodes.forEach for one removed node n
RemovedNodeEvents(target, n) ==
  <<dispatchMutationEvent("DOMNodeRemoved", n, NoOptions, NoNode),
    dispatchMutationEvent("DOMNodeRemoved", target, NoOptions, n)>>
  \o DispatchEach("DOMNodeRemovedFromDocument", walk(n), [bubbles |-> FALSE])
  \o <<dispatchMutationEvent("DOMNodeRemovedFromDocument", target,
                             [bubbles |-> FALSE], n)>>

\* Mutant: inserted-into-document on the added node only, not its subtree.
AddedNodeEventsRootOnly(target, n) ==
  <<dispatchMutationEvent("DOMNodeInserted", n, NoOptions, NoNode),
    dispatchMutationEvent("DOMNodeInsertedIntoDocument", n,
                          [bubbles |-> FALSE], NoNode)>>

\* The body of mutation.addedNodes.forEach for one added node n
AddedNodeEvents(target, n) ==
  <<dispatchMutationEvent("DOMNodeInserted", n, NoOptions, NoNode)>>
  \o DispatchEach("DOMNodeInsertedIntoDocument", walk(n), [bubbles |-> FALSE])

RECURSIVE RemovedEvents(_, _)
RemovedEvents(target, ns) ==
  IF ns = <<>> THEN <<>>
  ELSE RemovedNodeEvents(target, Head(ns)) \o RemovedEvents(target, Tail(ns))

RECURSIVE AddedEvents(_, _)
AddedEvents(target, ns) ==
  IF ns = <<>> THEN <<>>
  ELSE AddedNodeEvents(target, Head(ns)) \o AddedEvents(target, Tail(ns))

\* The condition of the attributes branch
AttributeFires(mutation) ==
  mutation.oldValue = Null \/ attr[mutation.target] = Null

\* Mutant: the characterData branch passes the old data as newValue and
\* the current text as prevValue.
RecordEventsSwapped(mutation) ==
  LET target == mutation.target
      type == mutation.type IN
  IF type = "attributes"
  THEN IF AttributeFires(mutation)
       THEN <<dispatchMutationEvent("DOMSubtreeModified", target,
                [attributeName |-> mutation.attributeName], NoNode)>>
       ELSE <<>>
  ELSE IF type = "characterData"
  THEN <<dispatchMutationEvent("DOMCharacterDataModified", target,
           [prevValue |-> textContent(target), newValue |-> mutation.oldValue],
           NoNode)>>
  ELSE IF type = "childList"
  THEN RemovedEvents(target, mutation.removedNodes)
       \o AddedEvents(target, mutation.addedNodes)
  ELSE <<>>

\* The events the body of mutations.forEach dispatches for one record
\* Mutant: the attributes branch passes the attribute's old and current
\* value as prevValue and newValue.
RecordEventsAttrValues(mutation) ==
  LET target == mutation.target
      type == mutation.type IN
  IF type = "attributes"
  THEN IF AttributeFires(mutation)
       THEN <<dispatchMutationEvent("DOMSubtreeModified", target,
                [attributeName |-> mutation.attributeName,
                 prevValue |-> mutation.oldValue, newValue |-> attr[target]],
                NoNode)>>
       ELSE <<>>
  ELSE IF type = "characterData"
  THEN <<dispatchMutationEvent("DOMCharacterDataModified", target,
           [prevValue |-> mutation.oldValue, newValue |-> textContent(target)],
           NoNode)>>
  ELSE IF type = "childList"
  THEN RemovedEvents(target, mutation.removedNodes)
       \o AddedEvents(target, mutation.addedNodes)
  ELSE <<>>

RecordEvents(mutation) ==
  LET target == mutation.target
      type == mutation.type IN
  IF type = "attributes"
  THEN IF AttributeFires(mutation)
       THEN <<dispatchMutationEvent("DOMSubtreeModified", target,
                [attributeName |-> mutation.attributeName], NoNode)>>
       ELSE <<>>
  ELSE IF type = "characterData"
  THEN <<dispatchMutationEvent("DOMCharacterDataModified", target,
           [prevValue |-> mutation.oldValue, newValue |-> textContent(target)],
           NoNode)>>
  ELSE IF type = "childList"
  THEN RemovedEvents(target, mutation.removedNodes)
       \o AddedEvents(target, mutation.addedNodes)
  ELSE <<>>

\* Mutant: a record marks its target once, however many nodes it lists.
RecordTouchedOnce(mutation) ==
  IF mutation.type = "characterData" THEN <<mutation.target>>
  ELSE IF mutation.type = "childList"
          /\ Len(mutation.removedNodes) + Len(mutation.addedNodes) > 0
  THEN <<mutation.target>>
  ELSE <<>>

\* What the body of mutations.forEach pushes on subtreeModified for one record
RecordTouched(mutation) ==
  IF mutation.type = "characterData" THEN <<mutation.target>>
  ELSE IF mutation.type = "childList"
  THEN [i \in 1..(Len(mutation.removedNodes) + Len(mutation.addedNodes)) |->
          mutation.target]
  ELSE <<>>

\* Each event with the index of the record whose handling dispatched it
\* (0: the final loop over subtreeModified)
Tagged(events, record) ==
  [j \in 1..Len(events) |-> [event |-> events[j], record |-> record]]

RECURSIVE ForEachRecord(_, _)
\* mutations.forEach from record i on: the dispatches, and subtreeModified
ForEachRecord(mutations, i) ==
  IF i > Len(mutations) THEN [events |-> <<>>, subtreeModified |-> <<>>]
  ELSE LET rest == ForEachRecord(mutations, i + 1) IN
       [events |-> Tagged(RecordEvents(mutations[i]), i) \o rest.events,
        subtreeModified |-> RecordTouched(mutations[i]) \o rest.subtreeModified]

\* Mutant: the loop over subtreeModified runs before mutations.forEach.
handleMutationsSubtreeFirst(mutations) ==
  LET each == ForEachRecord(mutations, 1) IN
  Tagged(DispatchEach("DOMSubtreeModified", each.subtreeModified, NoOptions), 0)
  \o each.events

\* handleMutations(mutations): every dispatch it makes, in order
handleMutations(mutations) ==
  LET each == ForEachRecord(mutations, 1) IN
  each.events
  \o Tagged(DispatchEach("DOMSubtreeModified", each.subtreeModified, NoOptions), 0)

(***************************************************************************)
(* The platform: dispatchEvent, and the microtask checkpoint.              *)
(***************************************************************************)
\* The listeners of `node` the event reaches in one phase, in the order they
\* were added.
ListenersFor(node, event, capture) ==
  SelectSeq(listeners[node],
            LAMBDA e : e.type = event.type /\ e.capture = capture)

\* Mutant: listeners read the node of the dispatch as event.target, as if
\* dispatchMutationEvent had not redefined the property.
InvocationReadsDispatchSite(entry, node, event) ==
  [currentTarget |-> node,
   type |-> IF entry.callback.closure = 0 THEN event.type
            ELSE entry.callback.eventName,
   listener |-> entry.callback.listener,
   closure |-> entry.callback.closure,
   capture |-> entry.capture,
   target |-> event.site,
   bubbles |-> event.bubbles]

\* Mutant: the closure calls the listener without redefining event.type.
InvocationKeepsType(entry, node, event) ==
  [currentTarget |-> node,
   type |-> event.type,
   listener |-> entry.callback.listener,
   closure |-> entry.callback.closure,
   capture |-> entry.capture,
   target |-> event.target,
   bubbles |-> event.bubbles]

\* One callback is run with the event: a closure of getAugmentedListener
\* redefines event.type as its eventName and calls the caller's listener.
\* Every closure registered for one suffixed type holds the same eventName,
\* so a later closure's defineProperty on the same event object writes the
\* value the property already has, and does not throw.
Invocation(entry, node, event) ==
  [currentTarget |-> node,
   type |-> IF entry.callback.closure = 0 THEN event.type
            ELSE entry.callback.eventName,
   listener |-> entry.callback.listener,
   closure |-> entry.callback.closure,
   capture |-> entry.capture,
   target |-> event.target,
   bubbles |-> event.bubbles]

InvokeAll(entries, node, event) ==
  [j \in 1..Len(entries) |-> Invocation(entries[j], node, event)]

RECURSIVE InvokeAlong(_, _, _)
InvokeAlong(path, event, capture) ==
  IF path = <<>> THEN <<>>
  ELSE InvokeAll(ListenersFor(Head(path), event, capture), Head(path), event)
       \o InvokeAlong(Tail(path), event, capture)

\* site.dispatchEvent(event): capture listeners from the outermost ancestor
\* down to the parent, the target's capture then non-capture listeners, and
\* when the event bubbles the non-capture listeners of the ancestors upwards.
dispatchEvent(event) ==
  LET ancestors == Tail(InclusiveAncestors(event.site)) IN
  InvokeAlong(Reverse(ancestors), event, TRUE)
  \o InvokeAlong(<<event.site>>, event, TRUE)
  \o InvokeAlong(<<event.site>>, event, FALSE)
  \o IF event.bubbles THEN InvokeAlong(ancestors, event, FALSE) ELSE <<>>

RECURSIVE DispatchAll(_)
DispatchAll(ds) ==
  IF ds = <<>> THEN <<>>
  ELSE dispatchEvent(Head(ds).event) \o DispatchAll(Tail(ds))

RECURSIVE CallbacksFrom(_)
\* The callbacks of the observers from observer o on, in creation order
CallbacksFrom(o) ==
  IF o > Len(observers) THEN <<>>
  ELSE LET events == handleMutations(observers[o].records) IN
       [j \in 1..Len(events) |-> Assign(events[j], [observer |-> o])]
       \o CallbacksFrom(o + 1)

\* The microtask checkpoint after the script has run: every observer with
\* queued records has its callback called with them, and is left with no
\* queued record and no transient registration.
Checkpoint ==
  /\ \E o \in DOMAIN observers : observers[o].records # <<>>
  /\ observers' = [o \in DOMAIN observers |->
                     [observers[o] EXCEPT !.records = <<>>, !.transient = {}]]
  /\ handled' = [o \in DOMAIN observers |-> observers[o].records]
  /\ dispatched' = CallbacksFrom(1)
  /\ invoked' = DispatchAll(dispatched')
  /\ UNCHANGED <<domVars, listeningNodes, documentsToObservers, listeners,
                 registered, enables, disables, lastCall, calls, muts,
                 envVars>>

(***************************************************************************)
(* Script mutates the tree: each operation changes the DOM and queues its  *)
(* records; nothing is dispatched before the next checkpoint.              *)
(***************************************************************************)
\* Mutant: the mutating call runs the observers' callbacks itself, with the
\* records queued so far.
MutationDeliversAtOnce ==
  /\ muts < MaxMuts
  /\ muts' = muts + 1
  /\ handled' = [o \in DOMAIN observers |-> observers[o].records]
  /\ dispatched' = CallbacksFrom(1)
  /\ invoked' = DispatchAll(dispatched')
  /\ UNCHANGED <<host, listeningNodes, documentsToObservers, listeners,
                 registered, enables, disables, lastCall, calls,
                 envVars>>

\* What every mutating operation does besides changing the DOM and queueing
\* its records: it dispatches nothing.
Mutation ==
  /\ muts < MaxMuts
  /\ muts' = muts + 1
  /\ handled' = <<>> /\ dispatched' = <<>> /\ invoked' = <<>>
  /\ UNCHANGED <<host, listeningNodes, documentsToObservers, listeners,
                 registered, enables, disables, lastCall, calls,
                 envVars>>

\* n.remove()
RemoveChild(n) ==
  /\ parentNode(n) # NoNode
  /\ Mutation
  /\ LET p == parentNode(n) IN
     /\ children' = [children EXCEPT ![p] = Without(@, n)]
     /\ observers' =
          AddTransient(QueueRecord(observers,
            Record("childList", p, <<>>, <<n>>, Null, Null)), p, <<n>>)
  /\ UNCHANGED <<attr, data>>

\* p.appendChild(n): n leaves its old parent, if any, and becomes p's last child
AppendChild(p, n) ==
  /\ p \notin Range(walk(n))
  /\ Mutation
  /\ LET q == parentNode(n)
         obs1 == IF q = NoNode THEN observers
                 ELSE AddTransient(QueueRecord(observers,
                        Record("childList", q, <<>>, <<n>>, Null, Null)), q, <<n>>)
         kids1 == IF q = NoNode THEN children
                  ELSE [children EXCEPT ![q] = Without(@, n)]
     IN /\ children' = [kids1 EXCEPT ![p] = Append(@, n)]
        /\ observers' = QueueRecord(obs1,
             Record("childList", p, <<n>>, <<>>, Null, Null))
  /\ UNCHANGED <<attr, data>>

\* p.replaceChildren(n), n a node that is in no tree: one record that holds
\* the removed children and the added node
ReplaceChildren(p, n) ==
  /\ parentNode(n) = NoNode
  /\ p \notin Range(walk(n))
  /\ Mutation
  /\ children' = [children EXCEPT ![p] = <<n>>]
  /\ observers' =
       AddTransient(QueueRecord(observers,
         Record("childList", p, <<n>>, children[p], Null, Null)), p, children[p])
  /\ UNCHANGED <<attr, data>>

\* n.setAttribute('test', v): a record also when the attribute exists already
SetAttribute(n, v) ==
  /\ Mutation
  /\ attr' = [attr EXCEPT ![n] = v]
  /\ observers' = QueueRecord(observers,
       Record("attributes", n, <<>>, <<>>, attr[n], v))
  /\ UNCHANGED <<children, data>>

\* n.attributes[i].value = v, for the existing attribute 'test'
SetAttrValue(n, v) ==
  /\ attr[n] # Null
  /\ SetAttribute(n, v)

\* n.removeAttribute('test'); nothing happens when the attribute is absent
RemoveAttribute(n) ==
  /\ attr[n] # Null
  /\ Mutation
  /\ attr' = [attr EXCEPT ![n] = Null]
  /\ observers' = QueueRecord(observers,
       Record("attributes", n, <<>>, <<>>, attr[n], Null))
  /\ UNCHANGED <<children, data>>

\* t.textContent = v on a text node
SetData(t, v) ==
  /\ Mutation
  /\ data' = [data EXCEPT ![t] = v]
  /\ observers' = QueueRecord(observers,
       Record("characterData", t, <<>>, <<>>, data[t], v))
  /\ UNCHANGED <<children, attr>>

(***************************************************************************)
(* The initial page: the fixture of test/test.html,                        *)
(*   <div id=parent><div id=target>Hello</div><div id=other></div></div>,  *)
(* with the polyfill installed and no listener added.                      *)
(***************************************************************************)
Tree(parentKids, targetKids) ==
  [n \in Nodes |->
     CASE n = Document -> <<"html">>
       [] n = "html" -> <<"parent">>
       [] n = "parent" -> parentKids
       [] n = "target" -> targetKids
       [] OTHER -> <<>>]

Fixture == Tree(<<"target", "other">>, <<"text">>)

Init ==
  /\ children = Fixture
  /\ host = [s \in ShadowRoots |-> NoNode]
  /\ attr = [n \in Elements |-> Null]
  /\ data = [n \in TextNodes |-> "Hello"]
  /\ listeningNodes = {}
  /\ documentsToObservers = <<>>
  /\ observers = <<>>
  /\ listeners = [n \in Nodes |-> <<>>]
  /\ registered = {}
  /\ enables = [n \in Nodes |-> 0]
  /\ disables = [n \in Nodes |-> 0]
  /\ lastCall = [op |-> "none", this |-> NoNode, legacy |-> FALSE,
                 listening |-> FALSE]
  /\ handled = <<>>
  /\ dispatched = <<>>
  /\ invoked = <<>>
  /\ calls = 0
  /\ muts = 0
  /\ running = Idle
  /\ window = Installed

(***************************************************************************)
(* The page of test/test.html after testHarness has added its listeners:   *)
(* for each of the six events, in the order of the `events` array, a       *)
(* non-capture and a capture listener on target, then on parent.  Script   *)
(* may have moved `other` or set the attribute before that (no observer    *)
(* existed then).  Each harness listener is registered once, so one name   *)
(* stands for all of them.                                                 *)
(***************************************************************************)
HarnessEvents == <<"DOMCharacterDataModified", "DOMNodeInserted",
                   "DOMNodeInsertedIntoDocument", "DOMNodeRemoved",
                   "DOMNodeRemovedFromDocument", "DOMSubtreeModified">>

\* The k-th listener added on node: event (k+1) \div 2, capture on even k.
\* The closures are numbered in the order of the addListener calls.
HarnessListeners(node) ==
  [k \in 1..12 |->
     LET e == (k + 1) \div 2
         capture == (k % 2 = 0)
     IN [type |-> HarnessEvents[e] \o polyfillEventNameExtension,
         callback |-> [closure |-> 4 * (e - 1) + (IF node = "target" THEN 0 ELSE 2)
                                   + (IF capture THEN 2 ELSE 1),
                       eventName |-> HarnessEvents[e],
                       listener |-> "f"],
         capture |-> capture]]

InitTrees == {Fixture,
              Tree(<<"target">>, <<"text", "other">>),
              Tree(<<"target">>, <<"text">>)}

InitHarness ==
  /\ children \in InitTrees
  /\ host = [s \in ShadowRoots |-> NoNode]
  /\ attr \in {[n \in Elements |-> Null],
               [n \in Elements |-> IF n \in AttrNodes THEN "foo" ELSE Null]}
  /\ data = [n \in TextNodes |-> "Hello"]
  /\ listeningNodes = {"target", "parent"}
  /\ documentsToObservers = ("html" :> [observer |-> 1, count |-> 2])
  /\ observers = <<NewObserver("html")>>
  /\ listeners = [n \in Nodes |->
                    IF n \in {"target", "parent"} THEN HarnessListeners(n)
                    ELSE <<>>]
  /\ registered = {Registration(n, HarnessEvents[e], "f", [capture |-> c]) :
                     n \in {"target", "parent"}, e \in 1..6, c \in BOOLEAN}
  /\ enables = [n \in Nodes |-> IF n \in {"target", "parent"} THEN 1 ELSE 0]
  /\ disables = [n \in Nodes |-> 0]
  /\ lastCall = [op |-> "add", this |-> "parent", legacy |-> TRUE,
                 listening |-> TRUE]
  /\ handled = <<>>
  /\ dispatched = <<>>
  /\ invoked = <<>>
  /\ calls = 0
  /\ muts = 0
  /\ running = Idle
  /\ window = Installed

(***************************************************************************)
(* The specifications.                                                     *)
(***************************************************************************)
\* Script adds and removes one listener f for the subtree-modified event, as
\* a capture or a non-capture listener.
ListenerCall ==
  \/ \E this \in ListenNodes, capture \in BOOLEAN :
       AddEventListener(this, "DOMSubtreeModified", "f", [capture |-> capture])
  \/ \E this \in ListenNodes, capture \in BOOLEAN :
       RemoveEventListener(this, "DOMSubtreeModified", "f", [capture |-> capture])

\* Script moves the elements target and other.
MoveStep ==
  /\ muts < MaxMoves
  /\ \/ \E n \in {"target", "other"} : RemoveChild(n)
     \/ \E p \in ParentNodes, n \in {"target", "other"} : AppendChild(p, n)

\* Listener calls, moves of the listening nodes, and the checkpoints.
Next ==
  \/ ListenerCall
  \/ MoveStep
  \/ Checkpoint
Spec == Init /\ [][Next]_vars

\* The page's tree never changes: only listeners are added and removed, for
\* legacy and other names.
NextStatic ==
  \/ \E this \in ListenNodes, eventName \in ListenNames, listener \in Listeners,
        capture \in BOOLEAN :
       AddEventListener(this, eventName, listener, [capture |-> capture])
  \/ \E this \in ListenNodes, eventName \in ListenNames, listener \in Listeners,
        capture \in BOOLEAN :
       RemoveEventListener(this, eventName, listener, [capture |-> capture])
SpecStatic == Init /\ [][NextStatic]_vars

\* The harness page: script mutates the tree, the attribute and the text, and
\* the observer's callback synthesizes the events.
NextEvents ==
  \/ \E n \in MovableNodes : RemoveChild(n)
  \/ \E p \in ParentNodes, n \in MovableNodes : AppendChild(p, n)
  \/ \E p \in ParentNodes, n \in MovableNodes : ReplaceChildren(p, n)
  \/ \E n \in AttrNodes, v \in AttrValues : SetAttribute(n, v)
  \/ \E n \in AttrNodes, v \in AttrValues : SetAttrValue(n, v)
  \/ \E n \in AttrNodes : RemoveAttribute(n)
  \/ \E t \in TextNodes, v \in DataValues : SetData(t, v)
  \/ Checkpoint
SpecEvents == InitHarness /\ [][NextEvents]_vars

(***************************************************************************)
(* Observer lifecycle.                                                     *)
(***************************************************************************)
RECURSIVE SumOver(_, _)
SumOver(f, S) ==
  IF S = {} THEN 0
  ELSE LET x == CHOOSE y \in S : TRUE IN f[x] + SumOver(f, S \ {x})

\* effective enables minus effective disables on the nodes under root r
NetEnables(r) ==
  LET under == {n \in Nodes : getRootElement(n) = r} IN
  SumOver(enables, under) - SumOver(disables, under)

\* C1: in a tree that does not change, the refcount stored for a root is the
\* number of effective enables on nodes under it minus the number of effective
\* disables, and the root has a registration iff that number is positive.
C1_RefcountConservation ==
  \A r \in Nodes :
    /\ (r \in DOMAIN documentsToObservers) <=> (NetEnables(r) > 0)
    /\ r \in DOMAIN documentsToObservers =>
         documentsToObservers[r].count = NetEnables(r)

\* Two nodes were enabled and one of them disabled again: the count is 1.
C1_Witness ==
  /\ enables["target"] = 1 /\ enables["parent"] = 1
  /\ disables["target"] = 1 /\ disables["parent"] = 0
  /\ "html" \in DOMAIN documentsToObservers
  /\ documentsToObservers["html"].count = 1

\* C2: every listening node has a registration for the root it resolves to
\* now, and no stored registration has refcount 0.
C2_ListeningConsistent ==
  /\ \A n \in listeningNodes : getRootElement(n) \in DOMAIN documentsToObservers
  /\ \A r \in DOMAIN documentsToObservers : documentsToObservers[r].count # 0

\* C3: while a legacy listener that was added and not removed remains on a
\* node, the root of that node has a registration with a connected observer.
C3_ObserverWhileListenersRemain ==
  \A reg \in registered :
    LET r == getRootElement(reg.node) IN
    /\ r \in DOMAIN documentsToObservers
    /\ observers[documentsToObservers[r].observer].connected

\* C4: once every legacy listener that was added has been removed again, the
\* registration map is empty and every observer created is disconnected.
C4_AllRemovedReleasesAll ==
  registered = {} =>
    /\ DOMAIN documentsToObservers = {}
    /\ \A o \in DOMAIN observers : ~observers[o].connected

\* The listener call of this step was an enable of a listening node or a
\* disable of a node that is not listening.
RedundantCall ==
  /\ calls' = calls + 1
  /\ lastCall'.legacy
  /\ \/ lastCall'.op = "add" /\ lastCall'.this \in listeningNodes
     \/ lastCall'.op = "remove" /\ lastCall'.this \notin listeningNodes

\* C5: enabling a node that is in the listening set, and disabling a node
\* that is not, changes neither the listening set nor any registration,
\* refcount or observer.
C5_Idempotent ==
  [][RedundantCall =>
       UNCHANGED <<listeningNodes, documentsToObservers, observers>>]_vars

\* A node was enabled once and disabled twice, after being enabled twice
\* would also do: the last call was the second disable of target.
C5_Witness ==
  /\ lastCall.op = "remove" /\ lastCall.legacy /\ ~lastCall.listening
  /\ lastCall.this = "target"
  /\ enables["target"] = 1 /\ disables["target"] = 1
  /\ calls = 3

(***************************************************************************)
(* Listener removal.                                                       *)
(***************************************************************************)
\* C6: a caller's listener that was removed with the name, listener and
\* options it was added with is not invoked by a later checkpoint: every
\* invocation of a listener added under a legacy name is of one that is still
\* registered.
C6_RemovedListenerNotInvoked ==
  \A i \in DOMAIN invoked :
    invoked[i].closure # 0 =>
      [node |-> invoked[i].currentTarget, eventName |-> invoked[i].type,
       listener |-> invoked[i].listener, capture |-> invoked[i].capture]
        \in registered

(***************************************************************************)
(* Event synthesis: what one callback dispatches for its batch.            *)
(***************************************************************************)
\* The dispatches of observer o's callback made while handling record i
DispatchedFor(o, i) ==
  SelectSeq(dispatched, LAMBDA d : d.observer = o /\ d.record = i)

IsEvent(d, type, site, target, bubbles) ==
  /\ d.event.type = type \o polyfillEventNameExtension
  /\ d.event.site = site
  /\ d.event.target = target
  /\ d.event.bubbles = bubbles

\* The operation behind an attributes record added an absent attribute or
\* removed an existing one (it did not overwrite a value).
AddsOrRemoves(r) == (r.oldValue = Null) # (r.newValue = Null)

\* C7: every attribute operation that adds an absent attribute or removes an
\* existing one produces exactly one bubbling subtree-modified event targeted
\* at the mutated node, and every operation that overwrites the value of an
\* existing attribute produces none.
C7_AttributeFiltering ==
  \A o \in DOMAIN handled : \A i \in DOMAIN handled[o] :
    LET r == handled[o][i]
        events == DispatchedFor(o, i) IN
    r.type = "attributes" =>
      IF AddsOrRemoves(r)
      THEN /\ Len(events) = 1
           /\ IsEvent(events[1], "DOMSubtreeModified", r.target, r.target, TRUE)
      ELSE events = <<>>

\* Node n had a qualifying change in batch: character data, a child inserted
\* or removed, an attribute added or removed.
Qualifying(batch, n) ==
  \E i \in DOMAIN batch :
    /\ batch[i].target = n
    /\ \/ batch[i].type = "characterData"
       \/ batch[i].type = "childList"
          /\ Len(batch[i].removedNodes) + Len(batch[i].addedNodes) > 0
       \/ batch[i].type = "attributes" /\ AddsOrRemoves(batch[i])

SubtreeModifiedAt(o, n) ==
  {j \in DOMAIN dispatched :
     /\ dispatched[j].observer = o
     /\ IsEvent(dispatched[j], "DOMSubtreeModified", n, n, TRUE)}

\* C8 as claimed: one subtree-modified event per node with a qualifying change
\* in the batch, however many children or records contributed.
C8_OnePerNodePerBatch ==
  \A o \in DOMAIN handled : \A n \in Nodes :
    Qualifying(handled[o], n) => Cardinality(SubtreeModifiedAt(o, n)) = 1

RECURSIVE Marks(_, _)
\* How often the batch marks n: once per removed child, per added child and
\* per character-data record of which n is the target.
Marks(batch, n) ==
  IF batch = <<>> THEN 0
  ELSE LET r == Head(batch) IN
       (IF r.target # n THEN 0
        ELSE IF r.type = "characterData" THEN 1
        ELSE IF r.type = "childList"
        THEN Len(r.removedNodes) + Len(r.addedNodes)
        ELSE 0)
       + Marks(Tail(batch), n)

DeferredAt(o, n) ==
  {j \in SubtreeModifiedAt(o, n) : dispatched[j].record = 0}

\* C8 as amended: after all records of the batch are handled, one
\* subtree-modified event is dispatched per marking: a node gets one for
\* each removed child, each added child and each character-data record of
\* which it is the target, and these come after every other dispatch of the
\* batch.
C8_OnePerMark ==
  \A o \in DOMAIN handled :
    /\ \A n \in Nodes : Cardinality(DeferredAt(o, n)) = Marks(handled[o], n)
    /\ \A j, k \in DOMAIN dispatched :
         (/\ dispatched[j].observer = o /\ dispatched[k].observer = o
          /\ dispatched[j].record = 0 /\ dispatched[k].record # 0) => k < j

\* A batch marked a node more than once, and it got as many events.
C8_Witness ==
  \E o \in DOMAIN handled : \E n \in Nodes :
    /\ Marks(handled[o], n) >= 2
    /\ Cardinality(DeferredAt(o, n)) = Marks(handled[o], n)

\* C9: a mutation that both removes and adds children of one parent, the only
\* change of that parent in its batch, yields two subtree-modified events
\* targeted at the parent.
C9_TwoForRemoveAndAdd ==
  \A o \in DOMAIN handled : \A i \in DOMAIN handled[o] :
    LET r == handled[o][i] IN
    (/\ r.type = "childList"
     /\ r.removedNodes # <<>> /\ r.addedNodes # <<>>
     /\ \A j \in DOMAIN handled[o] : j # i => handled[o][j].target # r.target)
    => Cardinality(SubtreeModifiedAt(o, r.target)) = 2

\* C10: for each removed node n of a childList record on parent p the
\* dispatches are consecutive and in this order: node-removed on n,
\* node-removed on p reporting n, removed-from-document on every node of n's
\* subtree, removed-from-document on p reporting n; the deferred
\* subtree-modified events on p all come after them, and there is one.
C10_RemovalOrder ==
  \A o \in DOMAIN handled : \A i \in DOMAIN handled[o] :
    LET r == handled[o][i] IN
    r.type = "childList" =>
      \A k \in DOMAIN r.removedNodes :
        LET n == r.removedNodes[k]
            p == r.target
            sub == walk(n)
            end(a) == a + 2 + Len(sub)
        IN \E a \in DOMAIN dispatched :
             /\ end(a) <= Len(dispatched)
             /\ \A j \in a..end(a) :
                  dispatched[j].observer = o /\ dispatched[j].record = i
             /\ IsEvent(dispatched[a], "DOMNodeRemoved", n, n, TRUE)
             /\ IsEvent(dispatched[a + 1], "DOMNodeRemoved", p, n, TRUE)
             /\ \A j \in 1..Len(sub) :
                  IsEvent(dispatched[a + 1 + j], "DOMNodeRemovedFromDocument",
                          sub[j], sub[j], FALSE)
             /\ IsEvent(dispatched[end(a)], "DOMNodeRemovedFromDocument",
                        p, n, FALSE)
             /\ DeferredAt(o, p) # {}
             /\ \A s \in DeferredAt(o, p) : s > end(a)

\* A batch held the removal of a node with a descendant.
C10_Witness ==
  \E o \in DOMAIN handled : \E i \in DOMAIN handled[o] :
    /\ handled[o][i].type = "childList"
    /\ \E k \in DOMAIN handled[o][i].removedNodes :
         Len(walk(handled[o][i].removedNodes[k])) >= 2
    /\ dispatched # <<>>

(***************************************************************************)
(* Document-membership events.                                             *)
(***************************************************************************)
IsType(d, type) == d.event.type = type \o polyfillEventNameExtension

\* C11: a removed-from-document event is dispatched for a removed node only
\* if the node was connected before the removal and is not connected when the
\* batch is handled; an inserted-into-document event is dispatched for an
\* added node only if the node was not connected before the insertion and the
\* insertion connected it.
C11_MembershipOnTransition ==
  \A j \in DOMAIN dispatched :
    LET d == dispatched[j] IN
    d.record # 0 =>
      LET r == handled[d.observer][d.record] IN
      /\ IsType(d, "DOMNodeRemovedFromDocument") =>
           r.targetConnected /\ ~isConnected(d.event.target)
      /\ IsType(d, "DOMNodeInsertedIntoDocument") =>
           r.targetConnected /\ r.addedConnected = {}

\* C12: for every node m of the subtree of a removed node, a
\* removed-from-document event that reports m as its target is dispatched on
\* the old parent.
C12_FakeTargetPerRemovedNode ==
  \A o \in DOMAIN handled : \A i \in DOMAIN handled[o] :
    LET r == handled[o][i] IN
    r.type = "childList" =>
      \A k \in DOMAIN r.removedNodes :
        \A m \in Range(walk(r.removedNodes[k])) :
          \E j \in DOMAIN dispatched :
            /\ dispatched[j].observer = o /\ dispatched[j].record = i
            /\ IsEvent(dispatched[j], "DOMNodeRemovedFromDocument",
                       r.target, m, FALSE)

MembershipEvents == {"DOMNodeInsertedIntoDocument", "DOMNodeRemovedFromDocument"}

\* C13: an inserted-into-document or removed-from-document event is never
\* delivered to a non-capture listener on a node other than the node the
\* event reports as its target.
C13_MembershipDoesNotBubble ==
  \A j \in DOMAIN invoked :
    (invoked[j].type \in MembershipEvents /\ ~invoked[j].capture)
      => invoked[j].currentTarget = invoked[j].target

(***************************************************************************)
(* Insertion and character data.                                           *)
(***************************************************************************)
\* Record i of observer o's batch is the only record of the batch on its
\* target.
OnlyRecordOnTarget(o, i) ==
  \A j \in DOMAIN handled[o] :
    j # i => handled[o][j].target # handled[o][i].target

\* The harness's listener on node `a` for legacy event `type`, of the given
\* phase, was invoked with an event that reports `target`.
Reached(a, type, target, capture) ==
  \E j \in DOMAIN invoked :
    /\ invoked[j].currentTarget = a /\ invoked[j].type = type
    /\ invoked[j].target = target /\ invoked[j].capture = capture

\* Record r appends one node that was not connected to a connected parent.
AppendsDetached(r) ==
  /\ r.type = "childList"
  /\ r.removedNodes = <<>> /\ Len(r.addedNodes) = 1
  /\ r.targetConnected /\ r.addedConnected = {}

SingleDataChange(o, i) ==
  /\ handled[o][i].type = "characterData"
  /\ OnlyRecordOnTarget(o, i)

\* C15: a single change of a text node's data dispatches exactly one
\* character-data-modified event on the text node, with prevValue the data
\* before the change and newValue the data after it, and later exactly one
\* subtree-modified event on the same text node; both events bubble, and
\* reach the non-capture listeners on the text node's ancestors.
C15_CharacterData ==
  \A o \in DOMAIN handled : \A i \in DOMAIN handled[o] :
    LET r == handled[o][i]
        t == r.target
        events == DispatchedFor(o, i) IN
    SingleDataChange(o, i) =>
      /\ Len(events) = 1
      /\ IsEvent(events[1], "DOMCharacterDataModified", t, t, TRUE)
      /\ events[1].event.prevValue = r.oldValue
      /\ events[1].event.newValue = r.newValue
      /\ Cardinality(SubtreeModifiedAt(o, t)) = 1
      /\ \A j \in DOMAIN dispatched : \A k \in SubtreeModifiedAt(o, t) :
           (/\ dispatched[j].observer = o /\ dispatched[j].record = i) => j < k
      /\ \A a \in ListenNodes \cap Range(InclusiveAncestors(t)) :
           /\ Reached(a, "DOMCharacterDataModified", t, FALSE)
           /\ Reached(a, "DOMSubtreeModified", t, FALSE)

\* A batch held a single change of the data of a text node below both
\* listening nodes, from one value to another.
C15_Witness ==
  \E o \in DOMAIN handled : \E i \in DOMAIN handled[o] :
    /\ SingleDataChange(o, i)
    /\ handled[o][i].oldValue # handled[o][i].newValue
    /\ ListenNodes \subseteq Range(InclusiveAncestors(handled[o][i].target))
    /\ Reached("parent", "DOMCharacterDataModified", handled[o][i].target, FALSE)

(***************************************************************************)
(* What the listeners observe.                                             *)
(***************************************************************************)
\* The last checkpoint handled one batch, the record of target.remove() in
\* <div id=parent><div id=target>Hello</div></div>.
RemovalScenario ==
  /\ Len(handled) = 1 /\ Len(handled[1]) = 1
  /\ handled[1][1].type = "childList"
  /\ handled[1][1].target = "parent"
  /\ handled[1][1].removedNodes = <<"target">>
  /\ handled[1][1].addedNodes = <<>>
  /\ children["parent"] = <<>>
  /\ children["target"] = <<"text">>

\* (event, reported target, listening node, capture listener)
Observed == {<<invoked[j].type, invoked[j].target, invoked[j].currentTarget,
               invoked[j].capture>> : j \in DOMAIN invoked}

ExpectedOnRemoval ==
  {<<"DOMNodeRemoved", "target", "parent", TRUE>>,
   <<"DOMNodeRemoved", "target", "target", TRUE>>,
   <<"DOMNodeRemoved", "target", "target", FALSE>>,
   <<"DOMNodeRemoved", "target", "parent", FALSE>>,
   <<"DOMNodeRemovedFromDocument", "target", "parent", TRUE>>,
   <<"DOMNodeRemovedFromDocument", "target", "target", TRUE>>,
   <<"DOMNodeRemovedFromDocument", "target", "target", FALSE>>,
   <<"DOMNodeRemovedFromDocument", "text", "parent", TRUE>>,
   <<"DOMNodeRemovedFromDocument", "text", "target", TRUE>>,
   <<"DOMSubtreeModified", "parent", "parent", TRUE>>,
   <<"DOMSubtreeModified", "parent", "parent", FALSE>>}

\* C16: with the harness's listeners on target and parent, target.remove()
\* delivers exactly the eleven invocations the 'Node removal' test lists, and
\* no others.
C16_NodeRemovalScenario ==
  RemovalScenario =>
    /\ Observed = ExpectedOnRemoval
    /\ Len(invoked) = Cardinality(ExpectedOnRemoval)

\* Position of the first invocation, for the event `type`
\* reporting `target`, of the listeners of node `a` in one phase (0: none).
FirstAt(a, type, target, capture) ==
  LET S == {j \in DOMAIN invoked :
              /\ invoked[j].currentTarget = a /\ invoked[j].type = type
              /\ invoked[j].target = target /\ invoked[j].capture = capture}
  IN IF S = {} THEN 0 ELSE CHOOSE j \in S : \A k \in S : j <= k

\* C17: for a node removal, the old parent's capture listener is invoked for
\* node-removed before any listener on the removed node, and the parent's
\* non-capture listener after them.
C17_CaptureThenBubble ==
  \A o \in DOMAIN handled : \A i \in DOMAIN handled[o] :
    LET r == handled[o][i] IN
    (/\ Len(handled[o]) = 1
     /\ r.type = "childList" /\ r.addedNodes = <<>>
     /\ r.target = "parent" /\ r.removedNodes = <<"target">>)
    => LET parentCapture == FirstAt("parent", "DOMNodeRemoved", "target", TRUE)
           parentBubble == FirstAt("parent", "DOMNodeRemoved", "target", FALSE)
       IN \A j \in DOMAIN invoked :
            (/\ invoked[j].currentTarget = "target"
             /\ invoked[j].type = "DOMNodeRemoved"
             /\ invoked[j].target = "target")
            => /\ parentCapture # 0 /\ parentCapture < j
               /\ parentBubble # 0 /\ j < parentBubble

\* C18: every invocation of a listener subscribed under a legacy name sees an
\* event whose type is the name the caller subscribed with, one of the six
\* legacy names and never the suffixed name; also the second and later
\* listeners given the same event.
C18_TypeAsSubscribed ==
  \A j \in DOMAIN invoked :
    invoked[j].closure # 0 =>
      /\ hasTarget(mutationEvents, invoked[j].type)
      /\ \E e \in Range(listeners[invoked[j].currentTarget]) :
           /\ e.callback.closure = invoked[j].closure
           /\ e.callback.listener = invoked[j].listener
           /\ e.type = invoked[j].type \o polyfillEventNameExtension

\* Two listeners of one node were invoked one after the other with the same
\* event: the node's capture listener, then its non-capture listener.
C18_Witness ==
  \E j \in DOMAIN invoked :
    /\ j + 1 \in DOMAIN invoked
    /\ invoked[j].closure # 0 /\ invoked[j + 1].closure # 0
    /\ invoked[j].currentTarget = invoked[j + 1].currentTarget
    /\ invoked[j].target = invoked[j + 1].target
    /\ invoked[j].capture /\ ~invoked[j + 1].capture
    /\ invoked[j].type = invoked[j + 1].type
    /\ hasTarget(mutationEvents, invoked[j + 1].type)

(***************************************************************************)
(* Other event names.                                                      *)
(***************************************************************************)
NonLegacyNames == {name \in ListenNames : name \notin mutationEvents}

\* C19: an addEventListener or removeEventListener call for a name that is
\* not a legacy name leaves listeningNodes, documentsToObservers and the
\* observers unchanged, and does to the node's listener list what the
\* platform's entry point does with the caller's own name, listener and
\* options.
C19_PassThrough ==
  [][\A this \in ListenNodes, eventName \in NonLegacyNames,
        listener \in Listeners, capture \in BOOLEAN :
       LET options == [capture |-> capture] IN
       /\ AddEventListener(this, eventName, listener, options) =>
            /\ UNCHANGED <<listeningNodes, documentsToObservers, observers>>
            /\ listeners' = [listeners EXCEPT ![this] =
                 originalAddEventListener(@, eventName, Unwrapped(listener),
                                          options)]
       /\ RemoveEventListener(this, eventName, listener, options) =>
            /\ UNCHANGED <<listeningNodes, documentsToObservers, observers>>
            /\ listeners' = [listeners EXCEPT ![this] =
                 originalRemoveEventListener(@, eventName, Unwrapped(listener),
                                             options)]
  ]_vars

\* The last call added a listener under another name on a page that has a
\* registration, and the platform holds the caller's own listener.
C19_Witness ==
  /\ lastCall.op = "add" /\ ~lastCall.legacy
  /\ listeningNodes # {} /\ DOMAIN documentsToObservers # {}
  /\ \E e \in Range(listeners[lastCall.this]) :
       e.type \in NonLegacyNames /\ e.callback = Unwrapped("f")

(***************************************************************************)
(* Timing.                                                                 *)
(***************************************************************************)
\* C20: no listener runs during a mutating call: a step that mutates the
\* page dispatches nothing and invokes nothing, and every step that
\* dispatches an event is a checkpoint, which changes nothing in the DOM and
\* handles the records that were queued before it.
C20_NoDispatchDuringMutation ==
  [][/\ (muts' # muts \/ domVars' # domVars) =>
          dispatched' = <<>> /\ invoked' = <<>>
     /\ (dispatched' # <<>> \/ invoked' # <<>>) =>
          /\ UNCHANGED <<domVars, muts>>
          /\ \E o \in DOMAIN observers : observers[o].records # <<>>
          /\ handled' = [o \in DOMAIN observers |-> observers[o].records]
          /\ \A o \in DOMAIN observers' : observers'[o].records = <<>>
  ]_vars

\* A mutation has run, its record is queued, and nothing has been dispatched.
C20_Witness ==
  /\ muts > 0
  /\ \E o \in DOMAIN observers :
       /\ observers[o].records # <<>>
       /\ handleMutations(observers[o].records) # <<>>
  /\ dispatched = <<>> /\ invoked = <<>>

(***************************************************************************)
(* Order within a batch.                                                   *)
(***************************************************************************)
\* The dispatches of observer o's callback, in order
DispatchedBy(o) == SelectSeq(dispatched, LAMBDA d : d.observer = o)

\* The nodes of the deferred subtree-modified dispatches, in order
DeferredNodes(o) ==
  LET deferred == SelectSeq(DispatchedBy(o), LAMBDA d : d.record = 0) IN
  [j \in 1..Len(deferred) |-> deferred[j].event.site]

RECURSIVE MarkSeq(_)
\* The markings of a batch in the order they are made: the record's target,
\* once per removed node, per added node and per character-data record.
MarkSeq(batch) ==
  IF batch = <<>> THEN <<>>
  ELSE LET r == Head(batch)
           n == IF r.type = "characterData" THEN 1
                ELSE IF r.type = "childList"
                THEN Len(r.removedNodes) + Len(r.addedNodes)
                ELSE 0
       IN [j \in 1..n |-> r.target] \o MarkSeq(Tail(batch))

\* Position of the first occurrence of x in s
FirstIndex(s, x) == CHOOSE j \in 1..Len(s) : s[j] = x /\ \A k \in 1..(j - 1) : s[k] # x

\* Records are handled in the order reported; within a record the removed
\* nodes come first, in sequence order, then the added nodes, in sequence
\* order; the deferred dispatches come after all the others.
InRecordOrder(o) ==
  LET ds == DispatchedBy(o) IN
  /\ \A j, k \in DOMAIN ds :
       j < k => /\ ds[j].record = 0 => ds[k].record = 0
                /\ (ds[j].record # 0 /\ ds[k].record # 0)
                     => ds[j].record <= ds[k].record
  /\ \A i \in DOMAIN handled[o] :
       LET r == handled[o][i]
           own == SelectSeq(DispatchedFor(o, i),
                    LAMBDA d : d.event.site = d.event.target
                               /\ (IsType(d, "DOMNodeRemoved")
                                   \/ IsType(d, "DOMNodeInserted")))
       IN r.type = "childList" =>
            /\ Len(own) = Len(r.removedNodes) + Len(r.addedNodes)
            /\ \A j \in DOMAIN r.removedNodes :
                 IsEvent(own[j], "DOMNodeRemoved", r.removedNodes[j],
                         r.removedNodes[j], TRUE)
            /\ \A j \in DOMAIN r.addedNodes :
                 IsEvent(own[Len(r.removedNodes) + j], "DOMNodeInserted",
                         r.addedNodes[j], r.addedNodes[j], TRUE)

\* C21 as claimed: records in order, nodes in sequence order, the deferred
\* subtree-modified dispatches last, ordered by when their node was first
\* marked.
C21_FirstMarkedOrder ==
  \A o \in DOMAIN handled :
    /\ InRecordOrder(o)
    /\ LET nodes == DeferredNodes(o)
           marks == MarkSeq(handled[o]) IN
       \A j, k \in DOMAIN nodes :
         j < k => FirstIndex(marks, nodes[j]) <= FirstIndex(marks, nodes[k])

\* C21 as amended: records in order, nodes in sequence order, and the
\* deferred subtree-modified dispatches last, one per marking in the order
\* the markings were made (a node marked again after another node is
\* dispatched again after it).
C21_MarkingOrder ==
  \A o \in DOMAIN handled :
    /\ InRecordOrder(o)
    /\ DeferredNodes(o) = MarkSeq(handled[o])

\* A batch of several records marked a node, then another, then the first
\* again.
C21_Witness ==
  \E o \in DOMAIN handled :
    LET nodes == DeferredNodes(o) IN
    /\ Len(handled[o]) >= 2
    /\ \E j \in DOMAIN nodes :
         /\ j + 2 \in DOMAIN nodes
         /\ nodes[j] # nodes[j + 1] /\ nodes[j] = nodes[j + 2]

(***************************************************************************)
(* A listener that mutates the tree.  The observer's callback is followed  *)
(* dispatch by dispatch: handleMutations holds the array of records it was *)
(* called with, and a mutation made by a listener it invokes queues its    *)
(* record on the observers, for a later callback.                          *)
(***************************************************************************)
\* The listener g removes `other` from its parent, if it has one.
ReentrantListener == "g"

Pending == \E o \in DOMAIN observers : observers[o].records # <<>>

\* Script runs only between microtask checkpoints.
ScriptRuns == running.observer = 0 /\ ~running.checkpoint

\* The platform calls the callback of the first observer that has records,
\* with those records; its transient registrations end.
StartCallback ==
  /\ running.observer = 0
  /\ Pending
  /\ LET o == CHOOSE o \in DOMAIN observers :
                /\ observers[o].records # <<>>
                /\ \A q \in 1..(o - 1) : observers[q].records = <<>>
     IN /\ running' = [observer |-> o, mutations |-> observers[o].records,
                       record |-> 1, step |-> 1, subtreeModified |-> <<>>,
                       checkpoint |-> TRUE]
        /\ observers' = [observers EXCEPT ![o].records = <<>>,
                                          ![o].transient = {}]
        /\ handled' = Append(handled, observers[o].records)
  /\ UNCHANGED <<domVars, polyVars, listeners, histVars, lastCall, dispatched,
                 invoked, calls, muts, window>>

\* handleMutations is inside mutations.forEach
InForEach == running.record <= Len(running.mutations)

\* The dispatches of the part of handleMutations that is running: those of
\* the current record, or those of the final loop over subtreeModified.
CurrentEvents ==
  IF InForEach THEN RecordEvents(running.mutations[running.record])
  ELSE DispatchEach("DOMSubtreeModified", running.subtreeModified, NoOptions)

\* g calls other.remove() and the record is appended to the array the
\* running handleMutations call iterates, instead of being queued.
ListenerMutatesIntoBatch(invocations) ==
  IF /\ \E j \in DOMAIN invocations :
          invocations[j].listener = ReentrantListener
     /\ parentNode("other") # NoNode
  THEN LET p == parentNode("other") IN
       /\ children' = [children EXCEPT ![p] = Without(@, "other")]
       /\ observers' = observers
       /\ running' = [running EXCEPT
            !.step = @ + 1,
            !.mutations = Append(@, Record("childList", p, <<>>, <<"other">>,
                                           Null, Null))]
  ELSE /\ UNCHANGED <<children, observers>>
       /\ running' = [running EXCEPT !.step = @ + 1]

\* What the invoked listeners do: f does nothing, g calls other.remove(),
\* whose record is queued on the observers.  handleMutations goes on to its
\* next dispatch.
ListenerMutates(invocations) ==
  IF /\ \E j \in DOMAIN invocations :
          invocations[j].listener = ReentrantListener
     /\ parentNode("other") # NoNode
  THEN LET p == parentNode("other") IN
       /\ children' = [children EXCEPT ![p] = Without(@, "other")]
       /\ observers' =
            AddTransient(QueueRecord(observers,
              Record("childList", p, <<>>, <<"other">>, Null, Null)),
              p, <<"other">>)
       /\ running' = [running EXCEPT !.step = @ + 1]
  ELSE /\ UNCHANGED <<children, observers>>
       /\ running' = [running EXCEPT !.step = @ + 1]

\* Mutant: the record of a mutation made by a listener joins the batch that
\* is being handled.
DispatchStepTakesRecords ==
  /\ running.observer # 0
  /\ running.step <= Len(CurrentEvents)
  /\ LET event == CurrentEvents[running.step]
         invocations == dispatchEvent(event)
     IN /\ dispatched' = Append(dispatched,
             [event |-> event,
              record |-> IF InForEach THEN running.record ELSE 0,
              observer |-> running.observer, batch |-> Len(handled)])
        /\ invoked' = invoked \o invocations
        /\ ListenerMutatesIntoBatch(invocations)
  /\ UNCHANGED <<host, attr, data, polyVars, listeners, histVars,
                 lastCall, handled, calls, muts, window>>

\* Mutant: a dispatch of the final loop releases the observer's registration.
DispatchStepReleases ==
  /\ running.observer # 0
  /\ running.step <= Len(CurrentEvents)
  /\ LET event == CurrentEvents[running.step]
         invocations == dispatchEvent(event)
     IN /\ dispatched' = Append(dispatched,
             [event |-> event,
              record |-> IF InForEach THEN running.record ELSE 0,
              observer |-> running.observer, batch |-> Len(handled)])
        /\ invoked' = invoked \o invocations
        /\ ListenerMutates(invocations)
  /\ listeningNodes' = IF InForEach THEN listeningNodes ELSE {}
  /\ documentsToObservers' = IF InForEach THEN documentsToObservers ELSE <<>>
  /\ UNCHANGED <<host, attr, data, listeners, histVars,
                 lastCall, handled, calls, muts, window>>

\* One dispatchMutationEvent call of the running handleMutations, with the
\* listeners it invokes and what they do.
DispatchStep ==
  /\ running.observer # 0
  /\ running.step <= Len(CurrentEvents)
  /\ LET event == CurrentEvents[running.step]
         invocations == dispatchEvent(event)
     IN /\ dispatched' = Append(dispatched,
             [event |-> event,
              record |-> IF InForEach THEN running.record ELSE 0,
              observer |-> running.observer, batch |-> Len(handled)])
        /\ invoked' = invoked \o invocations
        /\ ListenerMutates(invocations)
  /\ UNCHANGED <<host, attr, data, polyVars, listeners, histVars,
                 lastCall, handled, calls, muts, window>>

\* The body of mutations.forEach is done with a record: what it pushed on
\* subtreeModified, and on to the next record.
NextRecord ==
  /\ running.observer # 0
  /\ InForEach
  /\ running.step > Len(CurrentEvents)
  /\ running' = [running EXCEPT
       !.record = @ + 1, !.step = 1,
       !.subtreeModified = @ \o RecordTouched(running.mutations[running.record])]
  /\ UNCHANGED <<domVars, polyVars, observers, listeners, histVars, lastCall,
                 logVars, calls, muts, window>>

\* handleMutations returns.  The checkpoint goes on while records are queued.
FinishCallback ==
  /\ running.observer # 0
  /\ ~InForEach
  /\ running.step > Len(CurrentEvents)
  /\ running' = [Idle EXCEPT !.checkpoint = Pending]
  /\ UNCHANGED <<domVars, polyVars, observers, listeners, histVars, lastCall,
                 logVars, calls, muts, window>>

\* The fixture page after parent.addEventListener('DOMNodeRemoved', g),
\* parent.addEventListener('DOMSubtreeModified', f) and
\* target.addEventListener('DOMSubtreeModified', f).
ReentrantListeners(node) ==
  CASE node = "parent" ->
         <<[type |-> "DOMNodeRemoved" \o polyfillEventNameExtension,
            callback |-> [closure |-> 1, eventName |-> "DOMNodeRemoved",
                          listener |-> ReentrantListener],
            capture |-> FALSE],
           [type |-> "DOMSubtreeModified" \o polyfillEventNameExtension,
            callback |-> [closure |-> 2, eventName |-> "DOMSubtreeModified",
                          listener |-> "f"],
            capture |-> FALSE]>>
    [] node = "target" ->
         <<[type |-> "DOMSubtreeModified" \o polyfillEventNameExtension,
            callback |-> [closure |-> 3, eventName |-> "DOMSubtreeModified",
                          listener |-> "f"],
            capture |-> FALSE]>>
    [] OTHER -> <<>>

InitReentrant ==
  /\ children = Fixture
  /\ host = [s \in ShadowRoots |-> NoNode]
  /\ attr = [n \in Elements |-> Null]
  /\ data = [n \in TextNodes |-> "Hello"]
  /\ listeningNodes = {"target", "parent"}
  /\ documentsToObservers = ("html" :> [observer |-> 1, count |-> 2])
  /\ observers = <<NewObserver("html")>>
  /\ listeners = [n \in Nodes |-> ReentrantListeners(n)]
  /\ registered =
       {Registration("parent", "DOMNodeRemoved", ReentrantListener,
                     [capture |-> FALSE]),
        Registration("parent", "DOMSubtreeModified", "f", [capture |-> FALSE]),
        Registration("target", "DOMSubtreeModified", "f", [capture |-> FALSE])}
  /\ enables = [n \in Nodes |-> IF n \in {"target", "parent"} THEN 1 ELSE 0]
  /\ disables = [n \in Nodes |-> 0]
  /\ lastCall = [op |-> "add", this |-> "target", legacy |-> TRUE,
                 listening |-> FALSE]
  /\ handled = <<>>
  /\ dispatched = <<>>
  /\ invoked = <<>>
  /\ calls = 0
  /\ muts = 0
  /\ running = Idle
  /\ window = Installed

\* Script mutates the page between checkpoints (`other` stays a child of
\* parent or in no tree); the checkpoint runs the callbacks step by step.
NextReentrant ==
  \/ ScriptRuns /\ \E n \in {"target", "other"} : RemoveChild(n)
  \/ ScriptRuns /\ \E n \in {"target", "other"} : AppendChild("parent", n)
  \/ ScriptRuns /\ \E n \in AttrNodes, v \in AttrValues : SetAttribute(n, v)
  \/ ScriptRuns /\ \E t \in TextNodes, v \in DataValues : SetData(t, v)
  \/ StartCallback
  \/ DispatchStep
  \/ NextRecord
  \/ FinishCallback
SpecReentrant == InitReentrant /\ [][NextReentrant]_vars

(***************************************************************************)
(* C22: batches do not overlap, also with a listener that mutates the tree *)
(***************************************************************************)
\* The dispatches logged for batch b, without the log's bookkeeping
BatchDispatches(b) ==
  LET ds == SelectSeq(dispatched, LAMBDA d : d.batch = b) IN
  [j \in 1..Len(ds) |-> [event |-> ds[j].event, record |-> ds[j].record]]

IsPrefix(s, t) == Len(s) <= Len(t) /\ \A j \in 1..Len(s) : s[j] = t[j]

\* The listener g has removed `other` while a batch was being handled
ReentrantRemoval ==
  /\ \E j \in DOMAIN invoked : invoked[j].listener = ReentrantListener
  /\ \E b \in DOMAIN handled : b > 1 /\
       \E k \in DOMAIN handled[b] : handled[b][k].removedNodes = <<"other">>

\* C22: batches never overlap.  The dispatches appear batch after batch: no
\* dispatch of an earlier batch follows one of a later batch; the batch
\* in progress is the array of records its callback was called with, so a
\* record made by a listener during the batch is not in it; and the
\* dispatches of every batch are those of its own records, in handling
\* order, all of them once a later batch has started.
C22_BatchesDoNotOverlap ==
  /\ \A i, j \in DOMAIN dispatched :
       i < j => dispatched[i].batch <= dispatched[j].batch
  /\ \A i \in DOMAIN dispatched :
       /\ dispatched[i].batch \in DOMAIN handled
       /\ dispatched[i].record \in 0..Len(handled[dispatched[i].batch])
  /\ running.observer # 0 =>
       /\ handled # <<>>
       /\ running.mutations = handled[Len(handled)]
  /\ \A b \in DOMAIN handled :
       \A k \in DOMAIN handled[b] :
         (b < Len(handled) \/ running.observer = 0 \/ running.record > k \/
          (running.record = k /\ running.step > Len(CurrentEvents))) =>
           \A e \in Range(Tagged(RecordEvents(handled[b][k]), k)) :
             \E j \in DOMAIN BatchDispatches(b) :
               /\ BatchDispatches(b)[j].record = k
               /\ BatchDispatches(b)[j].event.type = e.event.type
               /\ BatchDispatches(b)[j].event.target = e.event.target

\* A second batch, made of the record of g's removal, has been dispatched
\* after every dispatch of the first.
C22_Witness ==
  /\ ReentrantRemoval
  /\ running.observer = 0
  /\ \E i, j \in DOMAIN dispatched :
       dispatched[i].batch = 1 /\ dispatched[j].batch = 2

(***************************************************************************)
(* Shadow trees: script attaches shadow roots, moves nodes into and out of *)
(* them, and adds and removes legacy listeners on the moved nodes.         *)
(***************************************************************************)
\* The page's script gives parent the shadow root `shadow` and target the
\* shadow root `inner`, and moves the elements target and other; the legacy
\* listener is added on the element other.
ShadowHostOf == [shadow |-> "parent", inner |-> "target"]
ShadowMovers == {"target", "other"}

\* A shadow root exists once attachShadow has made it
Exists(n) == n \in ShadowRoots => host[n] # NoNode
ExistingNodes == {n \in Nodes : Exists(n)}

\* The parent, or for a shadow root its host
ParentOrHost(n) ==
  IF n \in ShadowRoots THEN host[n] ELSE parentNode(n)

\* n and its host-including ancestors: appendChild throws when the node to
\* insert is one of them
RECURSIVE HostIncludingAncestors(_)
HostIncludingAncestors(n) ==
  IF ParentOrHost(n) = NoNode THEN {n}
  ELSE {n} \cup HostIncludingAncestors(ParentOrHost(n))

\* h.attachShadow({mode: 'open'}): s becomes the shadow root of h
AttachShadow(s, h) ==
  /\ host[s] = NoNode
  /\ \A t \in ShadowRoots : host[t] # h
  /\ host' = [host EXCEPT ![s] = h]
  /\ UNCHANGED <<children, attr, data, polyVars, observers, listeners,
                 histVars, lastCall, logVars, calls, muts, envVars>>

NextShadow ==
  \/ \E s \in ShadowRoots : AttachShadow(s, ShadowHostOf[s])
  \/ \E n \in ShadowMovers \cup {"parent"} : RemoveChild(n)
  \/ \E p \in ShadowRoots \cup {"parent"}, n \in ShadowMovers :
       /\ Exists(p)
       /\ n \notin HostIncludingAncestors(p)
       /\ AppendChild(p, n)
  \/ AddEventListener("other", "DOMNodeRemoved", "f", [capture |-> FALSE])
  \/ RemoveEventListener("other", "DOMNodeRemoved", "f", [capture |-> FALSE])
SpecShadow == Init /\ [][NextShadow]_vars

(***************************************************************************)
(* C23: the observation root of a node                                     *)
(***************************************************************************)
\* The top of the chain of parents and shadow hosts
RECURSIVE ComposedRoot(_)
ComposedRoot(n) ==
  IF ParentOrHost(n) = NoNode THEN n ELSE ComposedRoot(ParentOrHost(n))

\* el is inside a document through at least two nested shadow trees
NestedTwice(el) ==
  LET r == getRootNode(el) IN
  /\ r \in ShadowRoots /\ host[r] # NoNode
  /\ getRootNode(host[r]) \in ShadowRoots
  /\ ComposedRoot(el) = Document

\* el is in no document and in no shadow tree
Disconnected(el) ==
  /\ ComposedRoot(el) # Document
  /\ getRootNode(el) \notin ShadowRoots

\* C23 as stated: inside a document the result is the document element, and
\* for a disconnected node the result is the node itself.
C23_DisconnectedIsOwnRoot ==
  \A el \in ExistingNodes :
    /\ ComposedRoot(el) = Document => getRootElement(el) = documentElement
    /\ Disconnected(el) => getRootElement(el) = el

\* C23: for a node inside a document, directly or through any number of
\* nested shadow trees, getRootElement is the document element; for any
\* other node it is the root of the detached tree that climbing parents and
\* shadow hosts ends at, which is the node itself exactly when the node has
\* no parent and no host.
C23_RootOfDetachedTree ==
  \A el \in ExistingNodes :
    /\ ComposedRoot(el) = Document => getRootElement(el) = documentElement
    /\ ComposedRoot(el) # Document => getRootElement(el) = ComposedRoot(el)
    /\ ComposedRoot(el) # Document =>
         (getRootElement(el) = el <=> ParentOrHost(el) = NoNode)

\* enable has resolved the root of a listening node whose parent is in no
\* document: the registration is keyed by the root of the detached tree,
\* not by the node.
C23_Witness ==
  \E el \in listeningNodes :
    /\ Disconnected(el) /\ parentNode(el) # NoNode
    /\ getRootElement(el) # el
    /\ getRootElement(el) \in DOMAIN documentsToObservers

\* (reached too) the listening node sits two shadow trees deep in the document
C23_NestedReached ==
  \E el \in listeningNodes :
    NestedTwice(el) /\ getRootElement(el) \in DOMAIN documentsToObservers

(***************************************************************************)
(* C24, C25: the properties of the synthesized events                      *)
(***************************************************************************)
BubblingEvents == {"DOMNodeInserted", "DOMNodeRemoved", "DOMSubtreeModified",
                   "DOMCharacterDataModified"}

\* C24: every dispatched inserted-into-document and removed-from-document
\* event has bubbles = false, and every dispatched node-inserted,
\* node-removed, subtree-modified and character-data-modified event has
\* bubbles = true; listeners read the same flag.
C24_BubblesFlags ==
  /\ \A j \in DOMAIN dispatched :
       /\ (\E t \in MembershipEvents : IsType(dispatched[j], t))
            => dispatched[j].event.bubbles = FALSE
       /\ (\E t \in BubblingEvents : IsType(dispatched[j], t))
            => dispatched[j].event.bubbles = TRUE
  /\ \A j \in DOMAIN invoked :
       /\ invoked[j].type \in MembershipEvents => invoked[j].bubbles = FALSE
       /\ invoked[j].type \in BubblingEvents => invoked[j].bubbles = TRUE

\* One batch has dispatched a membership event and three bubbling kinds,
\* and listeners were invoked for both flags.
C24_Witness ==
  /\ \E j \in DOMAIN dispatched : IsType(dispatched[j], "DOMNodeRemovedFromDocument")
  /\ \E j \in DOMAIN dispatched : IsType(dispatched[j], "DOMNodeRemoved")
  /\ \E j \in DOMAIN dispatched : IsType(dispatched[j], "DOMSubtreeModified")
  /\ \E j \in DOMAIN dispatched : IsType(dispatched[j], "DOMCharacterDataModified")
  /\ \E j, k \in DOMAIN invoked : invoked[j].bubbles /\ ~invoked[k].bubbles

\* C25: the relatedNode of a synthesized node-removed event is the old
\* parent of the removed node (the target of the change record), and the
\* relatedNode of a synthesized node-inserted event is the new parent of the
\* inserted node.
C25_RelatedNodeIsParent ==
  \A j \in DOMAIN dispatched :
    LET d == dispatched[j] IN
    (d.record # 0 /\ (IsType(d, "DOMNodeRemoved") \/ IsType(d, "DOMNodeInserted")))
      => d.event.relatedNode = handled[d.observer][d.record].target

(***************************************************************************)
(* Loading the script.  window holds what the install guard reads and what *)
(* the script replaces: the number of wrappers around each entry point,    *)
(* and which MutationEvent the global names.  native (whether the platform *)
(* has its own MutationEvent) and loads (how often the script has run) are *)
(* history.                                                                *)
(***************************************************************************)
\* The page before the script has run
Fresh(native) ==
  [native |-> native,
   mutationEventsPolyfillInstalled |-> FALSE,
   MutationEvent |-> IF native THEN "native" ELSE "absent",
   mutationEventsUsePolyfillAlways |-> FALSE,
   addEventListener |-> 0, removeEventListener |-> 0,
   createEvent |-> 0, loads |-> 0]

\* The rest of the script body: the entry points are wrapped and the global
\* MutationEvent is defined.
Install(w) ==
  [w EXCEPT !.MutationEvent = "polyfill",
            !.addEventListener = @ + 1,
            !.removeEventListener = @ + 1,
            !.createEvent = @ + 1]

\* Mutant: the script has no "only run once" check.
LoadScriptEveryTime ==
  /\ window.loads < MaxLoads
  /\ LET nativeFeatureSupported == window.MutationEvent # "absent"
         w == [window EXCEPT !.loads = @ + 1,
                             !.mutationEventsPolyfillInstalled = TRUE]
     IN window' =
          IF nativeFeatureSupported /\ ~window.mutationEventsUsePolyfillAlways
          THEN w
          ELSE Install(w)
  /\ UNCHANGED <<domVars, polyVars, observers, listeners, histVars, lastCall,
                 logVars, calls, muts, running>>

\* Mutant: the script defers to the native feature whatever the flag says.
LoadScriptDefersAlways ==
  /\ window.loads < MaxLoads
  /\ LET nativeFeatureSupported == window.MutationEvent # "absent"
         w == [window EXCEPT !.loads = @ + 1,
                             !.mutationEventsPolyfillInstalled = TRUE]
     IN window' =
          IF window.mutationEventsPolyfillInstalled
          THEN [window EXCEPT !.loads = @ + 1]
          ELSE IF nativeFeatureSupported THEN w
          ELSE Install(w)
  /\ UNCHANGED <<domVars, polyVars, observers, listeners, histVars, lastCall,
                 logVars, calls, muts, running>>

\* The script runs: the guard at its top, then the installation.
LoadScript ==
  /\ window.loads < MaxLoads
  /\ LET nativeFeatureSupported == window.MutationEvent # "absent"
         w == [window EXCEPT !.loads = @ + 1,
                             !.mutationEventsPolyfillInstalled = TRUE]
     IN window' =
          IF window.mutationEventsPolyfillInstalled
          THEN [window EXCEPT !.loads = @ + 1]
          ELSE IF nativeFeatureSupported /\ ~window.mutationEventsUsePolyfillAlways
          THEN w
          ELSE Install(w)
  /\ UNCHANGED <<domVars, polyVars, observers, listeners, histVars, lastCall,
                 logVars, calls, muts, running>>

\* window.mutationEventsUsePolyfillAlways = true
SetUsePolyfillAlways ==
  /\ ~window.mutationEventsUsePolyfillAlways
  /\ window' = [window EXCEPT !.mutationEventsUsePolyfillAlways = TRUE]
  /\ UNCHANGED <<domVars, polyVars, observers, listeners, histVars, lastCall,
                 logVars, calls, muts, running>>

\* The platform's own addEventListener / removeEventListener, which a call
\* reaches directly while the entry points are not wrapped
NativeListenerCall(op, this, eventName, listener, options) ==
  /\ calls < MaxCalls
  /\ calls' = calls + 1
  /\ listeners' = [listeners EXCEPT ![this] =
       IF op = "add"
       THEN originalAddEventListener(@, eventName, Unwrapped(listener), options)
       ELSE originalRemoveEventListener(@, eventName, Unwrapped(listener), options)]
  /\ lastCall' = [op |-> op, this |-> this,
                  legacy |-> hasTarget(mutationEvents, eventName),
                  listening |-> this \in listeningNodes]
  /\ handled' = <<>> /\ dispatched' = <<>> /\ invoked' = <<>>
  /\ UNCHANGED <<domVars, polyVars, observers, histVars, muts, envVars>>

\* this.addEventListener(...) as the page's script calls it
CallAddEventListener(this, eventName, listener, options) ==
  IF window.addEventListener = 0
  THEN NativeListenerCall("add", this, eventName, listener, options)
  ELSE AddEventListener(this, eventName, listener, options)

\* this.removeEventListener(...) as the page's script calls it
CallRemoveEventListener(this, eventName, listener, options) ==
  IF window.removeEventListener = 0
  THEN NativeListenerCall("remove", this, eventName, listener, options)
  ELSE RemoveEventListener(this, eventName, listener, options)

InitInstall ==
  /\ children = Fixture
  /\ host = [s \in ShadowRoots |-> NoNode]
  /\ attr = [n \in Elements |-> Null]
  /\ data = [n \in TextNodes |-> "Hello"]
  /\ listeningNodes = {}
  /\ documentsToObservers = <<>>
  /\ observers = <<>>
  /\ listeners = [n \in Nodes |-> <<>>]
  /\ registered = {}
  /\ enables = [n \in Nodes |-> 0]
  /\ disables = [n \in Nodes |-> 0]
  /\ lastCall = [op |-> "none", this |-> NoNode, legacy |-> FALSE,
                 listening |-> FALSE]
  /\ handled = <<>>
  /\ dispatched = <<>>
  /\ invoked = <<>>
  /\ calls = 0
  /\ muts = 0
  /\ running = Idle
  /\ window \in {Fresh(native) : native \in BOOLEAN}

InstallNames == {"DOMNodeRemoved", "click"}

NextInstall ==
  \/ LoadScript
  \/ SetUsePolyfillAlways
  \/ \E eventName \in InstallNames :
       CallAddEventListener("target", eventName, "f", [capture |-> FALSE])
  \/ \E eventName \in InstallNames :
       CallRemoveEventListener("target", eventName, "f", [capture |-> FALSE])
SpecInstall == InitInstall /\ [][NextInstall]_vars

(***************************************************************************)
(* C26, C27: installation                                                  *)
(***************************************************************************)
WrappedEntryPoints == <<window.addEventListener, window.removeEventListener,
                        window.createEvent, window.MutationEvent>>

IsLoad == window'.loads = window.loads + 1

\* C26: installation happens at most once.  However often the script is
\* loaded, each entry point has at most one wrapper around it, and a second
\* or later load changes no state.
C26_InstalledAtMostOnce ==
  [][/\ window'.addEventListener <= 1
     /\ window'.removeEventListener <= 1
     /\ window'.createEvent <= 1
     /\ (IsLoad /\ window.loads >= 1) =>
          /\ window' = [window EXCEPT !.loads = @ + 1]
          /\ UNCHANGED <<domVars, polyVars, observers, listeners, histVars,
                         lastCall, logVars, calls, muts, running>>]_vars

\* The script was loaded twice on a page where it installed itself, and a
\* legacy listener was added through the one wrapper.
C26_Witness ==
  /\ window.loads >= 2
  /\ window.addEventListener = 1
  /\ "target" \in listeningNodes

\* C27 as stated: a load on a platform with native support leaves the entry
\* points and the global MutationEvent as they are when the force flag is not
\* set, and installs the interceptor when the flag is set before the load.
C27_ForcedOnAnyLoad ==
  [][(IsLoad /\ window.native) =>
       IF window.mutationEventsUsePolyfillAlways
       THEN /\ window'.addEventListener = 1
            /\ window'.removeEventListener = 1
            /\ window'.createEvent = 1
            /\ window'.MutationEvent = "polyfill"
       ELSE WrappedEntryPoints' = WrappedEntryPoints]_vars

\* C27: a load on a platform with native support leaves addEventListener,
\* removeEventListener, createEvent and the global MutationEvent as they are
\* when the force flag is not set; when the flag is set before the first
\* load of the script in the page, that load installs the interceptor; a
\* load after an earlier load installs nothing, whatever the flag says.
C27_ForcedOnFirstLoad ==
  [][(IsLoad /\ window.native) =>
       /\ ~window.mutationEventsUsePolyfillAlways =>
            WrappedEntryPoints' = WrappedEntryPoints
       /\ (window.mutationEventsUsePolyfillAlways /\ window.loads = 0) =>
            /\ WrappedEntryPoints = <<0, 0, 0, "native">>
            /\ WrappedEntryPoints' = <<1, 1, 1, "polyfill">>
       /\ window.loads >= 1 => WrappedEntryPoints' = WrappedEntryPoints]_vars

\* The platform has the feature natively, the flag was set, and the script
\* has installed the interceptor, through which a legacy listener was added.
C27_Witness ==
  /\ window.native
  /\ window.mutationEventsUsePolyfillAlways
  /\ window.loads >= 1
  /\ WrappedEntryPoints = <<1, 1, 1, "polyfill">>
  /\ "target" \in listeningNodes

\* (reached too) the script has deferred to the native feature
C27_DeferredReached ==
  /\ window.native /\ window.loads >= 1
  /\ WrappedEntryPoints = <<0, 0, 0, "native">>
  /\ listeners["target"] # <<>>

(***************************************************************************)
(* C28, C29: registrations and their observers                             *)
(***************************************************************************)
ConnectedOn(r) ==
  {o \in DOMAIN observers : observers[o].connected /\ observers[o].root = r}

\* C28: at any time there is at most one registration, and at most one
\* connected observer, per observation root, for any interleaving of enable
\* and disable calls and moves of the nodes: the connected observers of a
\* root with a registration are the one observer the registration holds.
\* (An enable that made an observer for a root that has a registration would
\* leave two connected observers on that root.)
C28_OneObserverPerRoot ==
  /\ \A r \in Nodes : Cardinality(ConnectedOn(r)) <= 1
  /\ \A r \in DOMAIN documentsToObservers :
       ConnectedOn(r) = {documentsToObservers[r].observer}

\* A root whose registration was released has been registered again: it has
\* a disconnected observer and exactly one connected one.
C28_Witness ==
  \E r \in DOMAIN documentsToObservers :
    /\ Cardinality(ConnectedOn(r)) = 1
    /\ \E o \in DOMAIN observers :
         observers[o].root = r /\ ~observers[o].connected

\* C29: the refcount of every stored registration is an integer >= 1 in
\* every reachable state, whatever enable and disable calls and moves of the
\* listening nodes led to it.
C29_RefcountPositive ==
  \A r \in DOMAIN documentsToObservers :
    /\ documentsToObservers[r].count \in Nat
    /\ documentsToObservers[r].count >= 1

\* After a move of a listening node, a disable has decremented a refcount
\* that is still stored.
C29_Witness ==
  /\ muts >= 1
  /\ lastCall.op = "remove" /\ lastCall.legacy /\ lastCall.listening
  /\ \E r \in DOMAIN documentsToObservers :
       /\ documentsToObservers[r].count = 1
       /\ Cardinality({n \in Nodes : enables[n] >= 1}) >= 2

(***************************************************************************)
(* C30: handling a batch does not touch the lifecycle state                *)
(***************************************************************************)
\* A step of the observer's callback: it starts, dispatches, moves to the
\* next record, or returns.
BatchStep == running' # running

\* C30: handling a batch of change records leaves the listening-node set,
\* the registration map and every refcount unchanged, and creates or
\* disconnects no observer, also when a listener invoked during the batch
\* mutates the tree.  (The listeners here call neither addEventListener nor
\* removeEventListener, the only code that changes them.)
C30_BatchLeavesLifecycleState ==
  [][BatchStep =>
       /\ UNCHANGED <<listeningNodes, documentsToObservers>>
       /\ Len(observers') = Len(observers)
       /\ \A o \in DOMAIN observers :
            /\ observers'[o].connected = observers[o].connected
            /\ observers'[o].root = observers[o].root]_vars

\* Two batches have been handled to the end, the second made by g's removal
\* of `other` during the first, and both listening nodes and the count of 2
\* are as they were.
C30_Witness ==
  /\ ReentrantRemoval
  /\ running = Idle
  /\ Len(handled) >= 2
  /\ \E j \in DOMAIN dispatched :
       dispatched[j].batch = Len(handled) /\ dispatched[j].record = 0
  /\ listeningNodes = {"target", "parent"}
  /\ documentsToObservers["html"].count = 2

(***************************************************************************)
(* C31, C32: what listeners read from a synthesized event                  *)
(***************************************************************************)
\* The event was dispatched with a fakeTarget
HasFakeTarget(e) == e.target # e.site

\* C31: when dispatchMutationEvent is given a fake target, every listener
\* invoked for the event reads the fake target as event.target while the
\* event is dispatched on, and propagates from, the node of the dispatch;
\* with no fake target, event.target is the node of the dispatch.  A fake
\* target is given for the removed nodes of a record, in the dispatches on
\* the record's target, and nowhere else.
C31_FakeTargetRead ==
  /\ \A k \in DOMAIN dispatched :
       LET e == dispatched[k].event IN
       /\ \A a \in Range(dispatchEvent(e)) :
            /\ a.target = e.target
            /\ a.currentTarget \in Range(InclusiveAncestors(e.site))
       /\ dispatched[k].record = 0 => ~HasFakeTarget(e)
       /\ (dispatched[k].record # 0 /\ HasFakeTarget(e)) =>
            LET r == handled[dispatched[k].observer][dispatched[k].record] IN
            /\ e.site = r.target
            /\ e.target \in Range(r.removedNodes)
  /\ \A j \in DOMAIN invoked :
       \E k \in DOMAIN dispatched :
         LET e == dispatched[k].event IN
         /\ e.type = invoked[j].type \o polyfillEventNameExtension
         /\ invoked[j].target = e.target
         /\ invoked[j].currentTarget \in Range(InclusiveAncestors(e.site))

\* A listener on parent was invoked for the removal of target and read
\* target, which is no longer below parent, as event.target; a listener was
\* also invoked for an event without a fake target.
C31_Witness ==
  /\ parentNode("target") # "parent"
  /\ \E j \in DOMAIN invoked :
       /\ invoked[j].type = "DOMNodeRemoved"
       /\ invoked[j].currentTarget = "parent"
       /\ invoked[j].target = "target"
  /\ \E j \in DOMAIN invoked :
       /\ invoked[j].type = "DOMSubtreeModified"
       /\ invoked[j].currentTarget = invoked[j].target

\* C32: every synthesized event has cancelable = false and attrChange = 0,
\* and has prevValue and newValue equal to the empty string unless it is a
\* character-data-modified event (whose prevValue is the record's oldValue).
C32_NeutralFields ==
  \A k \in DOMAIN dispatched :
    LET e == dispatched[k].event IN
    /\ e.cancelable = FALSE
    /\ e.attrChange = 0
    /\ IF IsType(dispatched[k], "DOMCharacterDataModified")
       THEN e.prevValue =
              handled[dispatched[k].observer][dispatched[k].record].oldValue
       ELSE e.prevValue = "" /\ e.newValue = ""

\* One batch has dispatched a character-data-modified event with values
\* that are not empty, an event for an attribute and a deferred
\* subtree-modified event.
C32_Witness ==
  /\ \E k \in DOMAIN dispatched :
       /\ IsType(dispatched[k], "DOMCharacterDataModified")
       /\ dispatched[k].event.prevValue # ""
       /\ dispatched[k].event.newValue # ""
  /\ \E k \in DOMAIN dispatched :
       /\ dispatched[k].record # 0
       /\ handled[dispatched[k].observer][dispatched[k].record].type = "attributes"
  /\ \E k \in DOMAIN dispatched : dispatched[k].record = 0

(***************************************************************************)
(* C33: walk                                                               *)
(***************************************************************************)
\* The parent of every node, and from it every node's path from the top of
\* its tree down to the node
ParentOf == [m \in Nodes |-> parentNode(m)]

PathsUnder(par) ==
  LET path[m \in Nodes] ==
        IF par[m] = NoNode THEN <<m>> ELSE Append(path[par[m]], m)
  IN path

\* The nodes of the subtree of n: those that have n on their path
Subtree(path, n) == {m \in Nodes : n \in Range(path[m])}

IndexIn(s, x) == CHOOSE j \in 1..Len(s) : s[j] = x

\* a comes before b in document order (a and b distinct nodes of one tree):
\* a is an ancestor of b, or where their paths from the top part, the
\* branch of a is the earlier child.
Precedes(path, a, b) ==
  LET pa == path[a]
      pb == path[b] IN
  IF a \in Range(pb) THEN TRUE
  ELSE IF b \in Range(pa) THEN FALSE
  ELSE LET k == CHOOSE k \in 2..Len(pa) :
                  /\ k <= Len(pb) /\ pa[k] # pb[k]
                  /\ \A q \in 1..(k - 1) : pa[q] = pb[q]
           kids == children[pa[k - 1]]
       IN IndexIn(kids, pa[k]) < IndexIn(kids, pb[k])

\* The nodes that the walks of record i of observer o's batch dispatched
\* `type` on, in order
WalkedBy(o, i, type) ==
  LET ds == SelectSeq(dispatched, LAMBDA d :
              /\ d.observer = o /\ d.record = i
              /\ IsType(d, type) /\ ~HasFakeTarget(d.event)) IN
  [j \in 1..Len(ds) |-> ds[j].event.site]

\* C33: walk(n, action) invokes action exactly once for n and for each of
\* its descendants of every node kind, in document order with n first, and
\* for no node outside that subtree; the walk is finite.  (Each visited node
\* comes before the next one in document order, which orders the whole
\* walk.)  The walks of handleMutations dispatch on exactly the nodes of the
\* removed and added subtrees, in this order.
C33_WalkVisitsSubtreeInOrder ==
  /\ LET path == PathsUnder(ParentOf) IN
     \A n \in Nodes :
       LET w == walk(n)
           sub == Subtree(path, n) IN
       /\ w[1] = n
       /\ Range(w) = sub
       /\ Len(w) = Cardinality(sub)
       /\ \A i \in 1..(Len(w) - 1) : Precedes(path, w[i], w[i + 1])
  /\ \A o \in DOMAIN handled : \A i \in DOMAIN handled[o] :
       LET r == handled[o][i] IN
       r.type = "childList" =>
         /\ WalkedBy(o, i, "DOMNodeRemovedFromDocument") = walkAll(r.removedNodes)
         /\ WalkedBy(o, i, "DOMNodeInsertedIntoDocument") = walkAll(r.addedNodes)

\* The removal of an element with a text node and an element below it has
\* been handled: removed-from-document went to the three nodes in order.
C33_Witness ==
  \E o \in DOMAIN handled : \E i \in DOMAIN handled[o] :
    /\ handled[o][i].type = "childList"
    /\ Len(handled[o][i].removedNodes) = 1
    /\ Len(WalkedBy(o, i, "DOMNodeRemovedFromDocument")) = 3
    /\ \E j \in 2..3 :
         WalkedBy(o, i, "DOMNodeRemovedFromDocument")[j] \in TextNodes

(***************************************************************************)
(* A listening node that is registered while it is in no document and is   *)
(* inserted afterwards.  The page's script has removed target (with its    *)
(* text) before any listener is added.                                     *)
(***************************************************************************)
InitDetached ==
  /\ children = Tree(<<"other">>, <<"text">>)
  /\ host = [s \in ShadowRoots |-> NoNode]
  /\ attr = [n \in Elements |-> Null]
  /\ data = [n \in TextNodes |-> "Hello"]
  /\ listeningNodes = {}
  /\ documentsToObservers = <<>>
  /\ observers = <<>>
  /\ listeners = [n \in Nodes |-> <<>>]
  /\ registered = {}
  /\ enables = [n \in Nodes |-> 0]
  /\ disables = [n \in Nodes |-> 0]
  /\ lastCall = [op |-> "none", this |-> NoNode, legacy |-> FALSE,
                 listening |-> FALSE]
  /\ handled = <<>>
  /\ dispatched = <<>>
  /\ invoked = <<>>
  /\ calls = 0
  /\ muts = 0
  /\ running = Idle
  /\ window = Installed

NextDetached ==
  \/ \E this \in ListenNodes :
       AddEventListener(this, "DOMCharacterDataModified", "f", [capture |-> FALSE])
  \/ \E this \in ListenNodes :
       RemoveEventListener(this, "DOMCharacterDataModified", "f", [capture |-> FALSE])
  \/ AppendChild("parent", "target")
  \/ RemoveChild("target")
  \/ \E v \in DataValues : SetData("text", v)
  \/ Checkpoint
SpecDetached == InitDetached /\ [][NextDetached]_vars

(***************************************************************************)
(* C34: each change is translated once                                     *)
(***************************************************************************)
\* C34: each change made to the tree is translated into synthetic events
\* exactly once: the subtrees watched by distinct registrations do not
\* overlap, no change record is queued on two observers, and no listener is
\* invoked twice with a character-data-modified event for one change; also
\* after a listening node that was registered while disconnected is inserted
\* into a document whose document element is observed.
C34_EachChangeOnce ==
  /\ \A r1, r2 \in DOMAIN documentsToObservers :
       r1 # r2 => Range(walk(r1)) \cap Range(walk(r2)) = {}
  /\ \A o1, o2 \in DOMAIN observers :
       o1 # o2 =>
         Range(observers[o1].records) \cap Range(observers[o2].records) = {}
  /\ \A o1, o2 \in DOMAIN handled :
       o1 # o2 => Range(handled[o1]) \cap Range(handled[o2]) = {}

(***************************************************************************)
(* C35, C36: repeated and unmatched listener calls                         *)
(***************************************************************************)
\* The invocations i and j call the same listener for the same subscription
SameSubscription(a, i, j) ==
  /\ a[i].currentTarget = a[j].currentTarget
  /\ a[i].listener = a[j].listener
  /\ a[i].type = a[j].type
  /\ a[i].capture = a[j].capture

\* C35: calling addEventListener twice on the same node with the same legacy
\* name, listener and capture option leaves one entry for the listener, and
\* the listener is invoked once per delivered event.
C35_DuplicateAddInvokedOnce ==
  /\ \A n \in Nodes : \A i, j \in DOMAIN listeners[n] :
       (/\ listeners[n][i].type = listeners[n][j].type
        /\ listeners[n][i].capture = listeners[n][j].capture
        /\ listeners[n][i].callback.listener = listeners[n][j].callback.listener)
         => i = j
  /\ \A k \in DOMAIN dispatched :
       LET a == dispatchEvent(dispatched[k].event) IN
       \A i, j \in DOMAIN a : SameSubscription(a, i, j) => i = j

\* C36: a removeEventListener call with a legacy name and a listener that
\* was not added on that node under that name and capture option leaves
\* listeningNodes, documentsToObservers and every observer unchanged.
C36_UnmatchedRemoveChangesNothing ==
  [][\A this \in ListenNodes, eventName \in ListenNames \cap mutationEvents,
        listener \in Listeners, capture \in BOOLEAN :
       LET options == [capture |-> capture] IN
       (/\ Registration(this, eventName, listener, options) \notin registered
        /\ RemoveEventListener(this, eventName, listener, options))
         => UNCHANGED <<listeningNodes, documentsToObservers, observers>>
  ]_vars

(***************************************************************************)
(* C37: several changes of a text node's data in one batch                 *)
(***************************************************************************)
\* The character-data-modified events of observer o's callback for node t,
\* in dispatch order
DataEvents(o, t) ==
  SelectSeq(dispatched, LAMBDA d :
    /\ d.observer = o
    /\ IsType(d, "DOMCharacterDataModified")
    /\ d.event.target = t)

\* C37: when a text node's data is changed several times within one batch,
\* each character-data-modified event's newValue is the value written by
\* its change, so it equals the prevValue of the next event for the node,
\* and the last event's newValue is the node's data.
C37_DataChain ==
  \A o \in DOMAIN handled : \A t \in TextNodes :
    LET ds == DataEvents(o, t) IN
    /\ \A j \in DOMAIN ds :
         ds[j].event.newValue = handled[o][ds[j].record].newValue
    /\ \A j \in 1..(Len(ds) - 1) :
         ds[j].event.newValue = ds[j + 1].event.prevValue
    /\ ds # <<>> => ds[Len(ds)].event.newValue = data[t]

(***************************************************************************)
(* C38: the observer of a listening node inside a shadow tree              *)
(***************************************************************************)
\* C38: every listening node whose root resolves to the document element,
\* directly or through shadow trees, lies inside the subtree that the
\* observer of that registration watches, so that a mutation next to the
\* node queues a record on this observer.
C38_ListeningNodeIsWatched ==
  \A n \in listeningNodes :
    (/\ ComposedRoot(n) = Document
     /\ getRootElement(n) \in DOMAIN documentsToObservers)
      => Interested(observers[documentsToObservers[getRootElement(n)].observer], n)

====
